---- MODULE Spec2Model ----
(***************************************************************************)
(* Core-Service: the plugin registry (src/plugins.py), the global          *)
(* configuration manager (src/config.py) and the HTTP handlers that drive  *)
(* them (src/api.py).                                                      *)
(*                                                                         *)
(* Text is modelled as a sequence of one-character strings, so that the    *)
(* safe_url derivation and the IP address parser work on characters.       *)
(* YAML documents are modelled by their parsed value: a list of records    *)
(* (plugins) or a record of sections (global configuration).  A Python     *)
(* dict is a TLA+ record whose DOMAIN is the set of keys; the key          *)
(* 'allowed-ip' is written allowed_ip, 'logging-level' logging_level.      *)
(***************************************************************************)
EXTENDS Integers, Sequences, FiniteSets, TLC

VARIABLES
    plugin_file,    \* PluginConfig.plugin_file: the file load_config reads
    plugin_config,  \* PluginConfig.config, wrapped: [kind, items]
    files,          \* durable plugin documents, by file name
    pc,             \* "ready", or "loaded": a request is past load_config
    req,            \* the request last dispatched: [method, body]
    resp,           \* its response: [status, result, ...]
    effects,        \* side effects of the current request, in order
    global_config,  \* GlobalConfig.config, wrapped: [kind, items]
    global_file,    \* the durable global configuration document
    su_name,        \* safe_url derivation: the plugin name
    su_url,         \* safe_url derivation: the webhook url
    su_out,         \* safe_url derivation: the derived route
    docker_env,     \* DOCKER_CONNECTION_METHOD, platform.system(), the socket
    docker_args,    \* DockerApi(server, port, force_tcp)
    containers,     \* the containers the runtime lists as running
    docker_pc,      \* position in api_containers and DockerApi.__init__
    services,       \* api_containers: the services not yet looked up
    container_list, \* api_containers: the details collected so far
    connection_attempts,  \* DockerApi.__init__: the candidates, in order
    attempted,      \* the candidates tried by this DockerApi, and how each ended
    connection_method,    \* DockerApi.connection_method
    last_exception, \* DockerApi.__init__: last_exception
    client_handles, \* the DockerClient objects made for the request
    peer            \* a second worker handling a request of its own

vars == <<plugin_file, plugin_config, files, pc, req, resp, effects,
          global_config, global_file, su_name, su_url, su_out,
          docker_env, docker_args, containers, docker_pc, services,
          container_list, connection_attempts, attempted, connection_method,
          last_exception, client_handles, peer>>

plugin_vars_kept == <<plugin_file, plugin_config, files>>
global_vars == <<global_config, global_file>>
su_vars == <<su_name, su_url, su_out>>
docker_runtime == <<docker_env, docker_args, containers>>
docker_client == <<connection_attempts, attempted, connection_method,
                   last_exception>>
docker_vars == <<docker_runtime, docker_pc, services, container_list,
                 docker_client, client_handles>>

(***************************************************************************)
(* Bounds                                                                  *)
(***************************************************************************)
MaxStrLen == 2      \* length of the names and urls given to the derivation
MaxPlugins == 2     \* register is issued while the list is shorter

(***************************************************************************)
(* Characters                                                              *)
(***************************************************************************)
UpperSeq == <<"A","B","C","D","E","F","G","H","I","J","K","L","M",
              "N","O","P","Q","R","S","T","U","V","W","X","Y","Z">>
LowerSeq == <<"a","b","c","d","e","f","g","h","i","j","k","l","m",
              "n","o","p","q","r","s","t","u","v","w","x","y","z">>
DigitSeq == <<"0","1","2","3","4","5","6","7","8","9">>

Range(s) == {s[i] : i \in DOMAIN s}
UpperCase == Range(UpperSeq)
LowerCase == Range(LowerSeq)
Digits == Range(DigitSeq)

\* str.lower() on one ASCII character
LowerChar(c) ==
    IF c \in UpperCase
    THEN LowerSeq[CHOOSE i \in DOMAIN UpperSeq : UpperSeq[i] = c]
    ELSE c

\* str.lower()
Lower(s) == [i \in DOMAIN s |-> LowerChar(s[i])]

\* str.replace(old, new) for a one-character old; new is a string
RECURSIVE Replace(_, _, _)
Replace(s, old, new) ==
    IF s = <<>> THEN <<>>
    ELSE (IF Head(s) = old THEN new ELSE <<Head(s)>>)
         \o Replace(Tail(s), old, new)

\* urllib.parse.quote never encodes these (its _ALWAYS_SAFE) nor its
\* default safe character '/'
AlwaysSafe == UpperCase \cup LowerCase \cup Digits \cup {"_", ".", "-", "~"}
QuoteSafe == AlwaysSafe \cup {"/"}

\* the two hexadecimal digits of the ASCII code of the other characters
\* the model uses; quote writes them in upper case ('%{:02X}')
HexCode(c) ==
    CASE c = " " -> <<"2", "0">>
      [] c = "#" -> <<"2", "3">>
      [] c = "%" -> <<"2", "5">>
      [] c = ":" -> <<"3", "A">>
      [] c = "?" -> <<"3", "F">>

QuoteChar(c) == IF c \in QuoteSafe THEN <<c>> ELSE <<"%">> \o HexCode(c)

\* urllib.parse.quote(s)
RECURSIVE Quote(_)
Quote(s) == IF s = <<>> THEN <<>> ELSE QuoteChar(Head(s)) \o Quote(Tail(s))

\* f"/plugin/{name}/{url}"
RoutePath(name, url) ==
    <<"/", "p", "l", "u", "g", "i", "n", "/">> \o name \o <<"/">> \o url

\* variant of SafeUrl without the call of lower()
SafeUrlNoLower(name, url) ==
    Quote(Replace(Replace(RoutePath(name, url), " ", <<"_">>), "#", <<>>))

\* load_config's derivation of webhook.safe_url from the name and the url
SafeUrl(name, url) ==
    Quote(Replace(Replace(Lower(RoutePath(name, url)), " ", <<"_">>),
                  "#", <<>>))

(***************************************************************************)
(* IP address validation (ipaddress.ip_address, IPv4 text form).  An IPv6  *)
(* literal needs ':' characters; the entries of the model have none, so    *)
(* the IPv6 branch of ip_address rejects every one of them.                *)
(***************************************************************************)
DigitValue(c) == (CHOOSE i \in DOMAIN DigitSeq : DigitSeq[i] = c) - 1

RECURSIVE DecimalValue(_)
DecimalValue(s) ==
    IF s = <<>> THEN 0
    ELSE 10 * DecimalValue(SubSeq(s, 1, Len(s) - 1)) + DigitValue(s[Len(s)])

\* str.split(sep) for a one-character separator
RECURSIVE Split(_, _)
Split(s, sep) ==
    IF \A i \in DOMAIN s : s[i] # sep THEN <<s>>
    ELSE LET k == CHOOSE i \in DOMAIN s :
                      s[i] = sep /\ \A j \in 1..(i - 1) : s[j] # sep
         IN <<SubSeq(s, 1, k - 1)>> \o Split(SubSeq(s, k + 1, Len(s)), sep)

\* IPv4Address._parse_octet: decimal digits only, at most three, no leading
\* zero, value at most 255
IsOctet(s) ==
    /\ s # <<>>
    /\ Range(s) \subseteq Digits
    /\ Len(s) <= 3
    /\ ~(Len(s) > 1 /\ s[1] = "0")
    /\ DecimalValue(s) <= 255

\* ipaddress.ip_address(address) returns (does not raise ValueError)
ip_address(address) ==
    /\ "/" \notin Range(address)
    /\ ":" \notin Range(address)
    /\ LET octets == Split(address, ".")
       IN /\ Len(octets) = 4
          /\ \A i \in DOMAIN octets : IsOctet(octets[i])

\* an IPv4 network in CIDR form: an address, '/', a prefix length 0..32
ip_network(address) ==
    LET parts == Split(address, "/")
    IN /\ Len(parts) = 2
       /\ ip_address(parts[1])
       /\ parts[2] # <<>>
       /\ Range(parts[2]) \subseteq Digits
       /\ Len(parts[2]) <= 2
       /\ DecimalValue(parts[2]) <= 32

\* variant of validate_ip_addresses that accepts every list
validate_nothing(ip_addresses) == TRUE

\* variant of validate_ip_addresses that also takes CIDR networks
validate_addresses_or_networks(ip_addresses) ==
    \A i \in DOMAIN ip_addresses :
        ip_address(ip_addresses[i]) \/ ip_network(ip_addresses[i])

\* validate_ip_addresses: True iff ip_address raises for no entry
validate_ip_addresses(ip_addresses) ==
    \A i \in DOMAIN ip_addresses : ip_address(ip_addresses[i])

(***************************************************************************)
(* Values of the plugin registry model                                     *)
(***************************************************************************)
DEFAULT_PLUGIN_FILE == "config/plugins.yaml"
\* a file name other than the default, given to PluginConfig(file_name)
CustomPluginFile == "config/plugins_custom.yaml"
FileNames == {DEFAULT_PLUGIN_FILE}
CustomFileNames == {DEFAULT_PLUGIN_FILE, CustomPluginFile}

NameA == <<"A", " ">>
NameB == <<"b", "#">>
Names == {NameA, NameB}
Urls == {<<"h", ":">>, <<"X", "/">>}
Descriptions == {"first", "second"}
Secrets == {"s3cret"}

Addr1 == <<"1","0",".","0",".","0",".","1">>              \* 10.0.0.1
Cidr1 == <<"1","0",".","0",".","0",".","0","/","8">>      \* 10.0.0.0/8
Bad1 == <<"3","0","0",".","1",".","1">>                   \* 300.1.1
IpLists == {<<Addr1>>, <<Addr1, Cidr1>>, <<Addr1, Bad1>>}

\* webhooks sent by callers; one of them carries a safe_url of its own
Webhooks ==
    [url : Urls, secret : Secrets, allowed_ip : IpLists]
    \cup {[url |-> <<"h", ":">>, secret |-> "s3cret", allowed_ip |-> <<Addr1>>,
           safe_url |-> <<"/", "x">>]}

\* bodies of POST /api/plugins
RegisterBodies == [name : Names, description : Descriptions, webhook : Webhooks]

\* bodies of PATCH /api/plugins
WellFormedUpdates == [plugin_name : Names, name : Names,
                      description : Descriptions, webhook : Webhooks]

\* bodies that lack a key update_config reads: plugin_name, or description
MalformedUpdates ==
    {[name |-> NameB, description |-> "second",
      webhook |-> [url |-> <<"h", ":">>, secret |-> "s3cret",
                   allowed_ip |-> <<Addr1>>]],
     [plugin_name |-> NameA, name |-> NameB,
      webhook |-> [url |-> <<"h", ":">>, secret |-> "s3cret",
                   allowed_ip |-> <<Addr1>>]]}

UpdateBodies == WellFormedUpdates \cup MalformedUpdates

\* outcomes of open(file, "w") followed by yaml.dump: written; open raised
\* and the file is as it was; dump raised after open truncated the file
WriteOutcomes == {"ok", "open_error", "dump_error"}

\* a durable file: a YAML document holding a list, or a file of zero bytes
Doc(items) == [kind |-> "doc", items |-> items]
EmptyFile == [kind |-> "empty", items |-> <<>>]

\* PluginConfig.config: a list, or None (yaml.safe_load of an empty file)
List(items) == [kind |-> "list", items |-> items]
None == [kind |-> "none", items |-> <<>>]

(***************************************************************************)
(* PluginConfig                                                            *)
(***************************************************************************)
\* the value yaml.safe_load gives a key that has no value ("webhook:")
YamlNull == [yaml_null |-> TRUE]

\* dict.get('webhook', {})
WebhookOf(entry) == IF "webhook" \in DOMAIN entry THEN entry.webhook ELSE <<>>

\* _validate_plugins, one entry: every required field and webhook field is
\* there (the lists of the model are lists, so the isinstance test passes)
ValidEntry(entry) ==
    /\ {"name", "description", "webhook"} \subseteq DOMAIN entry
    /\ {"url", "secret", "allowed_ip"} \subseteq DOMAIN WebhookOf(entry)

\* _validate_plugins: the valid entries, in order
_validate_plugins(items) == SelectSeq(items, ValidEntry)

\* variant of SetSafeUrl that keeps a stored safe_url
KeepStoredSafeUrl(entry) ==
    IF "safe_url" \in DOMAIN entry.webhook THEN entry
    ELSE [entry EXCEPT !.webhook =
             @ @@ ("safe_url" :> SafeUrl(entry.name, entry.webhook.url))]

\* entry['webhook']['safe_url'] = quote(...)
SetSafeUrl(entry) ==
    [entry EXCEPT !.webhook =
        ("safe_url" :> SafeUrl(entry.name, entry.webhook.url)) @@ @]

\* _validate_plugins, one entry: entry.get('webhook', {}) is None when the
\* document has the key with no value, and "field not in None" raises
\* TypeError
ValidationRaises(entry) ==
    "webhook" \in DOMAIN entry /\ entry.webhook = YamlNull

\* load_config on the content of the file: the value left in self.config
\* and whether the call raised (enumerate(None) raises TypeError); the
\* parsed document is assigned to self.config before it is validated
load_config(file) ==
    IF file.kind = "empty"
    THEN [raised |-> TRUE, config |-> None]
    ELSE IF \E i \in DOMAIN file.items : ValidationRaises(file.items[i])
    THEN [raised |-> TRUE, config |-> List(file.items)]
    ELSE LET valid == _validate_plugins(file.items)
         IN [raised |-> FALSE,
             config |-> List([i \in DOMAIN valid |-> SetSafeUrl(valid[i])])]

\* the first index whose entry has the name, 0 when there is none
FirstNamed(items, name) ==
    IF \E i \in DOMAIN items : items[i].name = name
    THEN CHOOSE i \in DOMAIN items :
             /\ items[i].name = name
             /\ \A j \in 1..(i - 1) : items[j].name # name
    ELSE 0

\* what yaml.dump(self.config) writes: every key of every entry
yaml_dump(items) == items

\* the file after open(..., "w") and yaml.dump(self.config, f)
Written(file, items, wr) ==
    CASE wr = "ok" -> Doc(yaml_dump(items))
      [] wr = "open_error" -> file
      [] wr = "dump_error" -> EmptyFile

WriteEvent(target, wr) == [ev |-> "write", target |-> target, outcome |-> wr]
AuditEvent(verb, name) == [ev |-> "audit", verb |-> verb, name |-> name]

\* a method left by an exception: nothing is returned, written or logged
Raises(config, file) ==
    [raised |-> TRUE, result |-> FALSE, config |-> config, file |-> file,
     effects |-> <<>>]

\* a method that returns False before it writes the file
Refused(config, file) ==
    [raised |-> FALSE, result |-> FALSE, config |-> config, file |-> file,
     effects |-> <<>>]

\* variant of name_exists: the duplicate check is missing
name_never_exists(items, name) == FALSE

\* register's loop over self.config: an entry already has the name
name_exists(items, name) == \E i \in DOMAIN items : items[i].name = name

\* variant of NewEntry that leaves the secret out
NewEntryNoSecret(config) ==
    [name |-> config.name,
     description |-> config.description,
     webhook |-> [url |-> config.webhook.url,
                  allowed_ip |-> config.webhook.allowed_ip]]

\* the entry register builds from the request
NewEntry(config) ==
    [name |-> config.name,
     description |-> config.description,
     webhook |-> [url |-> config.webhook.url,
                  secret |-> config.webhook.secret,
                  allowed_ip |-> config.webhook.allowed_ip]]

\* variant of register that sends the audit line before it writes the
\* file, whether or not the write succeeds
register_audits_first(items, file, config, wr) ==
    IF \E i \in DOMAIN items : items[i].name = config.name
    THEN Refused(items, file)
    ELSE IF ~validate_ip_addresses(config.webhook.allowed_ip)
    THEN Refused(items, file)
    ELSE LET added == Append(items, NewEntry(config))
         IN [raised |-> FALSE, result |-> wr = "ok", config |-> added,
             file |-> Written(file, added, wr),
             effects |-> <<AuditEvent("registered", config.name),
                           WriteEvent(DEFAULT_PLUGIN_FILE, wr)>>]

\* PluginConfig.register(config): the result, self.config and the default
\* plugin file afterwards, and the side effects in order
register(items, file, config, wr) ==
    IF name_exists(items, config.name)
    THEN Refused(items, file)
    ELSE IF ~validate_ip_addresses(config.webhook.allowed_ip)
    THEN Refused(items, file)
    ELSE LET added == Append(items, NewEntry(config))
         IN IF wr = "ok"
            THEN [raised |-> FALSE, result |-> TRUE, config |-> added,
                  file |-> Written(file, added, wr),
                  effects |-> <<WriteEvent(DEFAULT_PLUGIN_FILE, wr),
                                AuditEvent("registered", config.name)>>]
            ELSE [raised |-> FALSE, result |-> FALSE, config |-> added,
                  file |-> Written(file, added, wr),
                  effects |-> <<WriteEvent(DEFAULT_PLUGIN_FILE, wr)>>]

\* variant of UpdatedEntry that leaves the description as it was
UpdatedEntryKeepsDescription(entry, new_config) ==
    [entry EXCEPT
        !.name = new_config.name,
        !.webhook = [@ EXCEPT
            !.url = new_config.webhook.url,
            !.secret = new_config.webhook.secret,
            !.allowed_ip = new_config.webhook.allowed_ip]]

\* update_config's assignments to the matched entry; the other keys of the
\* entry and of its webhook (safe_url) stay
UpdatedEntry(entry, new_config) ==
    [entry EXCEPT
        !.name = new_config.name,
        !.description = new_config.description,
        !.webhook = [@ EXCEPT
            !.url = new_config.webhook.url,
            !.secret = new_config.webhook.secret,
            !.allowed_ip = new_config.webhook.allowed_ip]]

\* the keys update_config reads from new_config, in the order of its
\* assignments
AssignedFields == <<"name", "description", "url", "secret", "allowed_ip">>

\* new_config[field], or new_config['webhook'][field], does not raise KeyError
HasField(new_config, field) ==
    IF field \in {"name", "description"}
    THEN field \in DOMAIN new_config
    ELSE /\ "webhook" \in DOMAIN new_config
         /\ field \in DOMAIN new_config.webhook

\* the number of assignments update_config makes before one raises KeyError
AssignedCount(new_config) ==
    IF \A k \in DOMAIN AssignedFields : HasField(new_config, AssignedFields[k])
    THEN Len(AssignedFields)
    ELSE (CHOOSE k \in DOMAIN AssignedFields :
              /\ ~HasField(new_config, AssignedFields[k])
              /\ \A j \in 1..(k - 1) : HasField(new_config, AssignedFields[j]))
         - 1

\* the entry after the first n assignments of update_config
AssignFirst(entry, new_config, n) ==
    LET webhook == [f \in DOMAIN entry.webhook |->
                       IF \E k \in 3..n : AssignedFields[k] = f
                       THEN new_config.webhook[f]
                       ELSE entry.webhook[f]]
    IN [entry EXCEPT
           !.name = IF n >= 1 THEN new_config.name ELSE @,
           !.description = IF n >= 2 THEN new_config.description ELSE @,
           !.webhook = webhook]

\* variant of update_config that validates the new allowed-ip list before
\* it assigns anything to the matched entry
update_config_validates_first(items, file, new_config, wr) ==
    IF "plugin_name" \notin DOMAIN new_config THEN Raises(items, file) ELSE
    LET i == FirstNamed(items, new_config.plugin_name)
    IN IF i = 0
       THEN Refused(items, file)
       ELSE IF AssignedCount(new_config) < Len(AssignedFields)
       THEN Raises(items, file)
       ELSE IF ~validate_ip_addresses(new_config.webhook.allowed_ip)
       THEN Refused(items, file)
       ELSE LET changed ==
                    [items EXCEPT ![i] = UpdatedEntry(items[i], new_config)]
            IN [raised |-> FALSE, result |-> wr = "ok", config |-> changed,
                file |-> Written(file, changed, wr),
                effects |-> <<WriteEvent(DEFAULT_PLUGIN_FILE, wr)>>
                            \o (IF wr = "ok"
                                THEN <<AuditEvent("updated", changed[i].name)>>
                                ELSE <<>>)]

\* PluginConfig.update_config(new_config)
update_config(items, file, new_config, wr) ==
    IF "plugin_name" \notin DOMAIN new_config THEN Raises(items, file) ELSE
    LET i == FirstNamed(items, new_config.plugin_name)
    IN IF i = 0
       THEN Refused(items, file)
       ELSE IF AssignedCount(new_config) < Len(AssignedFields)
       THEN Raises([items EXCEPT ![i] =
                       AssignFirst(@, new_config, AssignedCount(new_config))],
                   file)
       ELSE LET changed ==
                    [items EXCEPT ![i] = UpdatedEntry(items[i], new_config)]
            IN IF ~validate_ip_addresses(changed[i].webhook.allowed_ip)
               THEN Refused(changed, file)
               ELSE IF wr = "ok"
               THEN [raised |-> FALSE, result |-> TRUE, config |-> changed,
                     file |-> Written(file, changed, wr),
                     effects |-> <<WriteEvent(DEFAULT_PLUGIN_FILE, wr),
                                   AuditEvent("updated", changed[i].name)>>]
               ELSE [raised |-> FALSE, result |-> FALSE, config |-> changed,
                     file |-> Written(file, changed, wr),
                     effects |-> <<WriteEvent(DEFAULT_PLUGIN_FILE, wr)>>]

\* variant of RemoveAt that drops the element and all that follow it
RemoveFrom(items, i) == SubSeq(items, 1, i - 1)

\* list.remove of the element at index i
RemoveAt(items, i) ==
    [j \in 1..(Len(items) - 1) |-> IF j < i THEN items[j] ELSE items[j + 1]]

\* PluginConfig.delete(name)
delete(items, file, name, wr) ==
    LET i == FirstNamed(items, name)
    IN IF i = 0
       THEN Refused(items, file)
       ELSE LET rest == RemoveAt(items, i)
            IN IF wr = "ok"
               THEN [raised |-> FALSE, result |-> TRUE, config |-> rest,
                     file |-> Written(file, rest, wr),
                     effects |-> <<WriteEvent(DEFAULT_PLUGIN_FILE, wr),
                                   AuditEvent("deleted", items[i].name)>>]
               ELSE [raised |-> FALSE, result |-> FALSE, config |-> rest,
                     file |-> Written(file, rest, wr),
                     effects |-> <<WriteEvent(DEFAULT_PLUGIN_FILE, wr)>>]

\* get_plugin_by_name: the index of the plugin returned, 0 for None
get_plugin_by_name(items, plugin_name) == FirstNamed(items, plugin_name)

(***************************************************************************)
(* /api/plugins.  A request runs in two steps: load_config at the top of   *)
(* api_plugins, then the branch of its method up to the response.          *)
(***************************************************************************)
LoadEvent == [ev |-> "load", target |-> plugin_file]

\* recycle_workers: the sentinel is touched, or the failure is logged
TouchEvent(touched) == [ev |-> "touch", done |-> touched]

\* the handler's call of the manager with the data of the request, and how
\* the call ended: it returned True or False, or raised
CallEvent(data, r) ==
    [ev |-> "call", data |-> data,
     returned |-> IF r.raised THEN "raised"
                  ELSE IF r.result THEN "True" ELSE "False"]

NoRequest == [method |-> "NONE", body |-> <<>>]
NoResponse == [status |-> 0, result |-> "none"]
ServerError == [status |-> 500, result |-> "error", message |-> "exception"]
ErrorResponse(message) ==
    [status |-> 400, result |-> "error", message |-> message]
SuccessResponse(message) ==
    [status |-> 200, result |-> "success", message |-> message]

\* the second worker while it handles nothing and takes no part
NoPeer ==
    [pc |-> "idle", config |-> None, req |-> NoRequest, resp |-> NoResponse,
     effects |-> <<>>]

\* variant of ApiPluginsLoad that serves the collection read by an earlier
\* request
ApiPluginsLoadCached ==
    /\ pc = "ready"
    /\ plugin_config' = plugin_config
    /\ effects' = <<LoadEvent>>
    /\ req' = NoRequest
    /\ IF plugin_config.kind = "none"
       THEN pc' = "ready" /\ resp' = ServerError
       ELSE pc' = "loaded" /\ resp' = NoResponse
    /\ UNCHANGED <<plugin_file, files, su_vars, global_vars,
                   docker_vars, peer>>

\* api_plugins, first step: plugin_config.load_config(); when it raises the
\* request ends in a server error
ApiPluginsLoad ==
    LET ld == load_config(files[plugin_file])
    IN /\ pc = "ready"
       /\ plugin_config' = ld.config
       /\ effects' = <<LoadEvent>>
       /\ req' = NoRequest
       /\ IF ld.raised
          THEN pc' = "ready" /\ resp' = ServerError
          ELSE pc' = "loaded" /\ resp' = NoResponse
       /\ UNCHANGED <<plugin_file, files, su_vars, global_vars,
                   docker_vars, peer>>

\* variant of Mutation: recycle_workers is not called
MutationWithoutTouch(r, touched, done, failed) ==
    /\ plugin_config' = List(r.config)
    /\ files' = [files EXCEPT ![DEFAULT_PLUGIN_FILE] = r.file]
    /\ resp' = IF r.raised THEN ServerError
               ELSE IF r.result THEN SuccessResponse(done)
               ELSE ErrorResponse(failed)
    /\ effects' = effects \o <<CallEvent(req'.body, r)>> \o r.effects

\* variant of Mutation: recycle_workers is called before the result is
\* looked at
MutationAlwaysTouches(r, touched, done, failed) ==
    /\ plugin_config' = List(r.config)
    /\ files' = [files EXCEPT ![DEFAULT_PLUGIN_FILE] = r.file]
    /\ resp' = IF r.raised THEN ServerError
               ELSE IF r.result THEN SuccessResponse(done)
               ELSE ErrorResponse(failed)
    /\ effects' = effects \o <<CallEvent(req'.body, r)>> \o r.effects
                  \o (IF r.raised THEN <<>> ELSE <<TouchEvent(touched)>>)

\* variant of Mutation: recycle_workers lets the exception of a failed
\* touch through
MutationTouchPropagates(r, touched, done, failed) ==
    /\ plugin_config' = List(r.config)
    /\ files' = [files EXCEPT ![DEFAULT_PLUGIN_FILE] = r.file]
    /\ resp' = IF r.raised \/ (r.result /\ ~touched) THEN ServerError
               ELSE IF r.result THEN SuccessResponse(done)
               ELSE ErrorResponse(failed)
    /\ effects' = effects \o <<CallEvent(req'.body, r)>> \o r.effects
                  \o (IF r.result THEN <<TouchEvent(touched)>> ELSE <<>>)

\* variant of Mutation: recycle_workers is called before the manager's
\* method writes the document
MutationTouchesFirst(r, touched, done, failed) ==
    /\ plugin_config' = List(r.config)
    /\ files' = [files EXCEPT ![DEFAULT_PLUGIN_FILE] = r.file]
    /\ resp' = IF r.raised THEN ServerError
               ELSE IF r.result THEN SuccessResponse(done)
               ELSE ErrorResponse(failed)
    /\ effects' = effects \o <<CallEvent(req'.body, r)>>
                  \o (IF r.result THEN <<TouchEvent(touched)>> ELSE <<>>)
                  \o r.effects

\* the part of api_plugins common to POST, PATCH and DELETE: r is what the
\* PluginConfig method returned or raised, and left behind; an exception
\* leaves the handler before recycle_workers and becomes a server error
Mutation(r, touched, done, failed) ==
    /\ plugin_config' = List(r.config)
    /\ files' = [files EXCEPT ![DEFAULT_PLUGIN_FILE] = r.file]
    /\ resp' = IF r.raised THEN ServerError
               ELSE IF r.result THEN SuccessResponse(done)
               ELSE ErrorResponse(failed)
    /\ effects' = effects \o <<CallEvent(req'.body, r)>> \o r.effects
                  \o (IF r.result THEN <<TouchEvent(touched)>> ELSE <<>>)

\* GET /api/plugins with X-Plugin-Name: plugin_name
ApiPluginsGet(plugin_name) ==
    LET i == get_plugin_by_name(plugin_config.items, plugin_name)
    IN /\ pc = "loaded"
       /\ pc' = "ready"
       /\ req' = [method |-> "GET", body |-> [name |-> plugin_name]]
       /\ resp' = IF i # 0
                  THEN [status |-> 200, result |-> "success",
                        plugin |-> plugin_config.items[i]]
                  ELSE [status |-> 404, result |-> "error",
                        message |-> "not found"]
       /\ UNCHANGED <<plugin_file, plugin_config, files, effects, su_vars, global_vars,
                   docker_vars, peer>>

\* GET /api/plugins with X-Plugin-Name: all
ApiPluginsGetAll ==
    /\ pc = "loaded"
    /\ pc' = "ready"
    /\ req' = [method |-> "GET", body |-> [name |-> <<"a", "l", "l">>]]
    /\ resp' = [status |-> 200, result |-> "success",
                plugins |-> plugin_config.items]
    /\ UNCHANGED <<plugin_file, plugin_config, files, effects, su_vars, global_vars,
                   docker_vars, peer>>

\* POST /api/plugins
ApiPluginsPost(body, wr, touched) ==
    /\ pc = "loaded"
    /\ Len(plugin_config.items) < MaxPlugins
    /\ pc' = "ready"
    /\ req' = [method |-> "POST", body |-> body]
    /\ Mutation(register(plugin_config.items, files[DEFAULT_PLUGIN_FILE],
                         body, wr),
                touched, "Plugin added successfully", "Failed to add plugin")
    /\ UNCHANGED <<plugin_file, su_vars, global_vars,
                   docker_vars, peer>>

\* PATCH /api/plugins
ApiPluginsPatch(body, wr, touched) ==
    /\ pc = "loaded"
    /\ pc' = "ready"
    /\ req' = [method |-> "PATCH", body |-> body]
    /\ Mutation(update_config(plugin_config.items,
                              files[DEFAULT_PLUGIN_FILE], body, wr),
                touched, "Plugin updated successfully",
                "Failed to update plugin configuration")
    /\ UNCHANGED <<plugin_file, su_vars, global_vars,
                   docker_vars, peer>>

\* DELETE /api/plugins
ApiPluginsDelete(name, wr, touched) ==
    /\ pc = "loaded"
    /\ pc' = "ready"
    /\ req' = [method |-> "DELETE", body |-> [name |-> name]]
    /\ Mutation(delete(plugin_config.items, files[DEFAULT_PLUGIN_FILE],
                       name, wr),
                touched, "Plugin deleted successfully",
                "Plugin not found or could not be deleted")
    /\ UNCHANGED <<plugin_file, su_vars, global_vars,
                   docker_vars, peer>>

(***************************************************************************)
(* The plugin documents the service starts from                            *)
(***************************************************************************)
EntryA ==
    [name |-> NameA, description |-> "first",
     webhook |-> [url |-> <<"h", ":">>, secret |-> "s3cret",
                  allowed_ip |-> <<Addr1>>]]

\* an entry whose file carries a safe_url that was edited by hand
EntryBStored ==
    [name |-> NameB, description |-> "second",
     webhook |-> [url |-> <<"X", "/">>, secret |-> "s3cret",
                  allowed_ip |-> <<>>, safe_url |-> <<"/", "b">>]]

\* an entry without webhook.secret
EntryBNoSecret ==
    [name |-> NameB, description |-> "second",
     webhook |-> [url |-> <<"X", "/">>, allowed_ip |-> <<Addr1>>]]

InitDocs == {<<>>, <<EntryA>>, <<EntryBStored>>, <<EntryBNoSecret, EntryA>>}

(***************************************************************************)
(* GlobalConfig                                                            *)
(***************************************************************************)
\* load_config's section_requirements
section_requirements ==
    [azure |-> {"tenant-id"},
     authentication |-> {"app-id", "app-secret", "salt", "redirect-uri",
                         "admin-group"},
     teams |-> {"app-id", "app-secret", "salt", "user", "public-key",
                "private-key"},
     sql |-> {"server", "port", "database", "username", "password", "salt"},
     web |-> {"logging-level"}]

Sections == DOMAIN section_requirements

\* update_config: for each category, the key of the section that each key
\* of the patch is copied to
PatchKeys ==
    [azure |-> [tenant_id |-> "tenant-id"],
     authentication |-> [auth_app_id |-> "app-id",
                         auth_app_secret |-> "app-secret",
                         auth_salt |-> "salt",
                         auth_redirect_uri |-> "redirect-uri",
                         auth_admin_group |-> "admin-group"],
     teams |-> [teams_app_id |-> "app-id",
                teams_app_secret |-> "app-secret",
                teams_salt |-> "salt",
                teams_user_name |-> "user",
                teams_public_key |-> "public-key",
                teams_private_key |-> "private-key"],
     sql |-> [sql_server |-> "server",
              sql_port |-> "port",
              sql_database |-> "database",
              sql_username |-> "username",
              sql_password |-> "password",
              sql_salt |-> "salt"],
     web |-> [web_logging_level |-> "logging-level"]]

\* update_config: the keys of the patch in the order the branch of the
\* category reads them
PatchOrder ==
    [azure |-> <<"tenant_id">>,
     authentication |-> <<"auth_app_id", "auth_app_secret", "auth_salt",
                          "auth_redirect_uri", "auth_admin_group">>,
     teams |-> <<"teams_app_id", "teams_app_secret", "teams_salt",
                 "teams_user_name", "teams_public_key", "teams_private_key">>,
     sql |-> <<"sql_server", "sql_port", "sql_database", "sql_username",
               "sql_password", "sql_salt">>,
     web |-> <<"web_logging_level">>]

\* the keys of the patch that the branch assigns before config[key] raises
\* KeyError: all of them when the patch has every key of the category
Assigned(category, patch) ==
    LET order == PatchOrder[category]
    IN {order[k] : k \in {k \in DOMAIN order :
                             \A j \in 1..k : order[j] \in DOMAIN patch}}

\* variant of StoredValue: the level is stored as it was sent
StoredValueAsGiven(category, value) == value

\* the value update_config stores for one key of the patch
StoredValue(category, value) ==
    IF category = "web" THEN Lower(value) ELSE value

\* update_config's if/elif chain reaches a branch other than the last else
known_category(category) == category \in Sections

\* variant of UpdatedSection: the section is replaced by the keys of the
\* patch, and its other keys are lost
UpdatedSectionOnly(section, category, patch) ==
    LET keys == PatchKeys[category]
        read == Assigned(category, patch)
    IN [k \in {keys[p] : p \in read} |->
           StoredValue(category, patch[CHOOSE p \in read : keys[p] = k])]

\* the assignments of the branch of update_config taken for the category
UpdatedSection(section, category, patch) ==
    LET keys == PatchKeys[category]
        read == Assigned(category, patch)
        set == {keys[p] : p \in read}
    IN [k \in DOMAIN section \cup set |->
           IF k \in set
           THEN StoredValue(category,
                            patch[CHOOSE p \in read : keys[p] = k])
           ELSE section[k]]

DEFAULT_CONFIG_FILE == "config/global.yaml"

\* variant of global_update_config: the last else does not return, and an
\* unknown category falls through to the save
update_config_falls_through(config, file, patch, wr) ==
    IF "category" \notin DOMAIN patch THEN Raises(config, file)
    ELSE LET changed ==
                 IF known_category(patch.category)
                 THEN [config EXCEPT ![patch.category] =
                          UpdatedSection(@, patch.category, patch)]
                 ELSE config
         IN IF /\ known_category(patch.category)
               /\ Assigned(patch.category, patch)
                      # DOMAIN PatchKeys[patch.category]
            THEN Raises(changed, file)
            ELSE [raised |-> FALSE, result |-> wr = "ok", config |-> changed,
                  file |-> Written(file, changed, wr),
                  effects |-> <<WriteEvent(DEFAULT_CONFIG_FILE, wr)>>]

\* GlobalConfig.update_config(config): the result, self.config and the
\* configuration file afterwards, and the side effects in order
global_update_config(config, file, patch, wr) ==
    IF "category" \notin DOMAIN patch THEN Raises(config, file)
    ELSE IF ~known_category(patch.category)
    THEN Refused(config, file)
    ELSE LET changed == [config EXCEPT ![patch.category] =
                            UpdatedSection(@, patch.category, patch)]
         IN IF Assigned(patch.category, patch)
                   # DOMAIN PatchKeys[patch.category]
            THEN Raises(changed, file)
            ELSE
            [raised |-> FALSE, result |-> wr = "ok", config |-> changed,
             file |-> Written(file, changed, wr),
             effects |-> <<WriteEvent(DEFAULT_CONFIG_FILE, wr)>>]

SectionOrder == <<"azure", "authentication", "teams", "sql", "web">>

valid_levels ==
    {<<"d", "e", "b", "u", "g">>, <<"i", "n", "f", "o">>,
     <<"w", "a", "r", "n", "i", "n", "g">>, <<"e", "r", "r", "o", "r">>,
     <<"c", "r", "i", "t", "i", "c", "a", "l">>}

\* config.get("web", {}).get("logging-level", "").lower()
LevelOf(config) ==
    IF "web" \in DOMAIN config /\ "logging-level" \in DOMAIN config["web"]
    THEN Lower(config["web"]["logging-level"])
    ELSE <<>>

\* variant of _validate_sections: a missing key raises as a missing
\* section does
_validate_sections_strict(config) ==
    LET absent == {sec \in Sections : sec \notin DOMAIN config}
        keys == {<<sec, key>> \in UNION {{<<x, y>> : y \in section_requirements[x]}
                                            : x \in Sections \ absent} :
                    key \notin DOMAIN config[sec]}
    IN [raised |-> absent # {} \/ keys # {},
        logged |-> [keys |-> keys, section |-> "", level |-> FALSE]]

\* _validate_sections: whether it raised ValueError for a missing section,
\* and what it logged: the keys missing from the sections it went through
\* and, when no section is missing, an invalid logging level
_validate_sections(config) ==
    LET missing == {k \in DOMAIN SectionOrder :
                       SectionOrder[k] \notin DOMAIN config}
        first == IF missing = {} THEN Len(SectionOrder) + 1
                 ELSE CHOOSE k \in missing : \A j \in missing : k <= j
        seen == {SectionOrder[k] : k \in 1..(first - 1)}
        keys == {<<sec, key>> \in UNION {{<<x, y>> : y \in section_requirements[x]}
                                            : x \in seen} :
                    key \notin DOMAIN config[sec]}
    IN [raised |-> missing # {},
        logged |-> [keys |-> keys,
                    section |-> IF missing = {} THEN "" ELSE SectionOrder[first],
                    level |-> missing = {} /\ LevelOf(config) \notin valid_levels]]

NothingLogged == [keys |-> {}, section |-> "", level |-> FALSE]

\* GlobalConfig.load_config on the content of the file: the value left in
\* self.config, whether the call raised and what it logged (a missing
\* section raises ValueError after self.config was assigned; None raises
\* TypeError)
global_load_config(file) ==
    IF file.kind = "empty"
    THEN [raised |-> TRUE, config |-> None, logged |-> NothingLogged]
    ELSE LET checked == _validate_sections(file.items)
         IN [raised |-> checked.raised,
             config |-> [kind |-> "dict", items |-> file.items],
             logged |-> checked.logged]

(***************************************************************************)
(* /api/config                                                             *)
(***************************************************************************)
GlobalLoadEvent(logged) ==
    [ev |-> "load", target |-> DEFAULT_CONFIG_FILE, logged |-> logged]

\* api_config, first step: app_config.load_config()
ApiConfigLoad ==
    LET ld == global_load_config(global_file)
    IN /\ pc = "ready"
       /\ global_config' = ld.config
       /\ effects' = <<GlobalLoadEvent(ld.logged)>>
       /\ req' = NoRequest
       /\ IF ld.raised
          THEN pc' = "ready" /\ resp' = ServerError
          ELSE pc' = "loaded" /\ resp' = NoResponse
       /\ UNCHANGED <<plugin_vars_kept, global_file, su_vars,
                   docker_vars, peer>>

\* GET /api/config
ApiConfigGet ==
    /\ pc = "loaded"
    /\ pc' = "ready"
    /\ req' = [method |-> "GET", body |-> <<>>]
    /\ resp' = [status |-> 200, result |-> "success",
                config |-> global_config.items]
    /\ UNCHANGED <<plugin_vars_kept, global_vars, effects, su_vars,
                   docker_vars, peer>>

\* request.json of a body that is the JSON value null
JsonNull == [json_null |-> TRUE]

\* variant of ApiConfigPatch: the test is 'if not data', and the empty
\* object is refused as null is
ApiConfigPatchIfData(data, wr, touched) ==
    LET r == global_update_config(global_config.items, global_file, data, wr)
    IN /\ pc = "loaded"
       /\ pc' = "ready"
       /\ req' = [method |-> "PATCH", body |-> data]
       /\ IF data = JsonNull \/ DOMAIN data = {}
          THEN /\ resp' = ErrorResponse("No data provided")
               /\ UNCHANGED <<global_vars, effects>>
          ELSE /\ global_config' = [kind |-> "dict", items |-> r.config]
               /\ global_file' = r.file
               /\ resp' = IF r.raised THEN ServerError
                          ELSE IF r.result
                          THEN SuccessResponse(
                                   "Configuration updated successfully")
                          ELSE ErrorResponse("Failed to update configuration")
               /\ effects' = effects \o <<CallEvent(data, r)>> \o r.effects
                             \o (IF r.result THEN <<TouchEvent(touched)>>
                                 ELSE <<>>)
       /\ UNCHANGED <<plugin_vars_kept, su_vars,
                   docker_vars, peer>>

\* PATCH /api/config with a JSON value as body: null, or an object
ApiConfigPatch(data, wr, touched) ==
    LET r == global_update_config(global_config.items, global_file, data, wr)
    IN /\ pc = "loaded"
       /\ pc' = "ready"
       /\ req' = [method |-> "PATCH", body |-> data]
       /\ IF data = JsonNull
          THEN /\ resp' = ErrorResponse("No data provided")
               /\ UNCHANGED <<global_vars, effects>>
          ELSE /\ global_config' = [kind |-> "dict", items |-> r.config]
               /\ global_file' = r.file
               /\ resp' = IF r.raised THEN ServerError
                          ELSE IF r.result
                          THEN SuccessResponse(
                                   "Configuration updated successfully")
                          ELSE ErrorResponse("Failed to update configuration")
               /\ effects' = effects \o <<CallEvent(data, r)>> \o r.effects
                             \o (IF r.result THEN <<TouchEvent(touched)>>
                                 ELSE <<>>)
       /\ UNCHANGED <<plugin_vars_kept, su_vars,
                   docker_vars, peer>>

(***************************************************************************)
(* Values of the global configuration model                                *)
(***************************************************************************)
\* the value a key holds in the document the service starts from
StartValue(section, key) ==
    IF section = "web" THEN <<"i", "n", "f", "o">> ELSE <<section, key, 0>>

StartConfig ==
    [s \in Sections |->
        [k \in section_requirements[s] |-> StartValue(s, k)]]

\* a document in which a key that is not required sits next to the others
StartConfigExtra ==
    [StartConfig EXCEPT !["web"] = ("port" :> <<"web", "port", 0>>) @@ @]

Revisions == {1, 2}

\* a patch that gives every key of the category its value of revision n
PatchOf(category, n) ==
    [p \in DOMAIN PatchKeys[category] \cup {"category"} |->
        IF p = "category" THEN category ELSE <<category, p, n>>]

Levels == {<<"D", "E", "B", "U", "G">>, <<"e", "r", "r", "o", "r">>,
           <<"L", "o", "u", "d">>}

WebPatch(category, level) ==
    [category |-> category, web_logging_level |-> level]

WellFormedPatches ==
    {PatchOf(c, n) : c \in Sections \ {"web"}, n \in Revisions}
    \cup {WebPatch("web", l) : l \in Levels}
    \cup {WebPatch("Web", l) : l \in Levels}
    \cup {[PatchOf("azure", n) EXCEPT !.category = "bogus"] : n \in Revisions}

\* the JSON object {}
EmptyObject == [p \in {} |-> <<>>]

\* the patch without the keys of the set
Without(patch, absent) == [p \in DOMAIN patch \ absent |-> patch[p]]

\* patches that lack a key update_config reads: the category, or a field
\* of the selected section
MalformedPatches ==
    {EmptyObject,
     Without(PatchOf("azure", 1), {"category"}),
     Without(PatchOf("authentication", 1), {"auth_salt"})}

\* values of request.json
Patches == WellFormedPatches \cup MalformedPatches \cup {JsonNull}

\* a document without a required key inside a present section
StartConfigNoKey ==
    [StartConfig EXCEPT !["sql"] = Without(@, {"salt"})]

\* a document whose logging level is none of the valid levels
StartConfigBadLevel ==
    [StartConfig EXCEPT !["web"]["logging-level"] = <<"L", "o", "u", "d">>]

\* a document without a required section
StartConfigNoSection == Without(StartConfig, {"teams"})

StartDocs == {StartConfig, StartConfigExtra, StartConfigNoKey,
              StartConfigBadLevel, StartConfigNoSection}

(***************************************************************************)
(* DockerApi (src/docker_api.py) and /api/containers                       *)
(***************************************************************************)
MaxContainers == 2  \* number of containers the runtime lists

DOCKER_SOCKET_UNIX == "/var/run/docker.sock"
DOCKER_SOCKET_WINDOWS == "npipe://./pipe/docker_engine"
DOCKER_SERVER_FALLBACK == "host.docker.internal"

\* os.getenv('DOCKER_CONNECTION_METHOD', 'auto').lower(); the variable is a
\* text, or is not set
EnvUnset == [set |-> FALSE, value |-> <<>>]
EnvSet(text) == [set |-> TRUE, value |-> text]
docker_connection_method(env) ==
    Lower(IF env.set THEN env.value ELSE <<"a", "u", "t", "o">>)

\* variant of ForceTcp without the override of the environment
ForceTcpArgOnly(env, force_tcp) == force_tcp

\* force_tcp after the override of the environment
ForceTcp(env, force_tcp) ==
    IF docker_connection_method(env) = <<"t", "c", "p">> THEN TRUE
    ELSE IF docker_connection_method(env) = <<"s", "o", "c", "k", "e", "t">>
    THEN FALSE
    ELSE force_tcp

TcpUrl(server, port) == "tcp://" \o server \o ":" \o ToString(port)
TcpMethod(server, port) == "TCP (" \o server \o ":" \o ToString(port) \o ")"
TcpAttempt(server, port) ==
    [url |-> TcpUrl(server, port), method |-> TcpMethod(server, port)]

UnixAttempt ==
    [url |-> "unix://" \o DOCKER_SOCKET_UNIX, method |-> "Unix socket"]
PipeAttempt == [url |-> DOCKER_SOCKET_WINDOWS, method |-> "Windows named pipe"]

\* the socket or pipe candidate of _get_connection_attempts, if any
LocalAttempts(env) ==
    IF env.platform # "Windows" /\ env.socket_exists THEN <<UnixAttempt>>
    ELSE IF env.platform = "Windows" THEN <<PipeAttempt>>
    ELSE <<>>

\* the TCP candidates of _get_connection_attempts
TcpAttempts(server, port) ==
    <<TcpAttempt(server, port), TcpAttempt("localhost", 2375),
      TcpAttempt("127.0.0.1", 2375)>>

\* variant of _get_connection_attempts that tries the TCP candidates before
\* the socket
_get_connection_attempts_tcp_first(env, server, port, force_tcp) ==
    TcpAttempts(server, port)
    \o (IF ~force_tcp THEN LocalAttempts(env) ELSE <<>>)

\* DockerApi._get_connection_attempts(force_tcp)
_get_connection_attempts(env, server, port, force_tcp) ==
    (IF ~force_tcp THEN LocalAttempts(env) ELSE <<>>)
    \o TcpAttempts(server, port)

\* how docker.DockerClient(base_url) followed by client.ping() ends: both
\* succeed, or one raises DockerException, or one raises another Exception
AttemptFailures == {"DockerException", "TimeoutError"}
AttemptOutcomes == {"ok"} \cup AttemptFailures

NoMethod == "None"
NoException == [type |-> "None", url |-> "None"]

\* image labels
ServiceLabel == "net.networkdirection.service.name"
PluginLabel == "net.networkdirection.plugin.name"
TitleLabel == "org.opencontainers.image.title"
DescriptionLabel == "org.opencontainers.image.description"
VersionLabel == "org.opencontainers.image.version"

\* labels.get(key, default)
LabelGet(labels, key, default) ==
    IF key \in DOMAIN labels THEN labels[key] ELSE default

NoLabels == [k \in {} |-> ""]

\* container_status, the test of one container
Matches(container, service_name) ==
    \/ LabelGet(container.labels, ServiceLabel, "Unknown Service")
          = service_name
    \/ LabelGet(container.labels, PluginLabel, "Unknown Plugin")
          = service_name

\* container_status, the dict built from a matching container
StatusOf(container, service_name) ==
    [name |-> container.name,
     title |-> LabelGet(container.labels, TitleLabel, "Unknown Title"),
     description |-> LabelGet(container.labels, DescriptionLabel,
                              "No description available"),
     service_name |-> service_name,
     version |-> LabelGet(container.labels, VersionLabel, "Unknown Version"),
     status |-> container.status,
     health |-> container.health]

PyNone == [py_none |-> TRUE]
EmptyDict == [k \in {} |-> ""]

\* variant of the loop of container_status that stops at the first
\* matching container
StatusAfterFirstMatch(listed, service_name, n) ==
    IF \E i \in 1..n : Matches(listed[i], service_name)
    THEN LET i == CHOOSE i \in 1..n :
                     /\ Matches(listed[i], service_name)
                     /\ \A j \in 1..(i - 1) :
                           ~Matches(listed[j], service_name)
         IN StatusOf(listed[i], service_name)
    ELSE EmptyDict

\* container_status, the loop: status after the first n containers; every
\* matching container overwrites it
RECURSIVE StatusAfter(_, _, _)
StatusAfter(listed, service_name, n) ==
    IF n = 0 THEN EmptyDict
    ELSE IF Matches(listed[n], service_name)
    THEN StatusOf(listed[n], service_name)
    ELSE StatusAfter(listed, service_name, n - 1)

\* variant of container_status that ignores the plugin-name label and the
\* labels of title, description and version
container_status_service_only(listed, service_name) ==
    IF listed = <<>> THEN PyNone
    ELSE IF \E i \in DOMAIN listed :
               LabelGet(listed[i].labels, ServiceLabel, "Unknown Service")
                  = service_name
    THEN LET i == CHOOSE i \in DOMAIN listed :
                     /\ LabelGet(listed[i].labels, ServiceLabel,
                                 "Unknown Service") = service_name
                     /\ \A j \in (i + 1)..Len(listed) :
                           LabelGet(listed[j].labels, ServiceLabel,
                                    "Unknown Service") # service_name
         IN StatusOf([listed[i] EXCEPT !.labels = NoLabels], service_name)
    ELSE EmptyDict

\* DockerApi.container_status(service_name) on the containers listed
container_status(listed, service_name) ==
    IF listed = <<>> THEN PyNone
    ELSE StatusAfter(listed, service_name, Len(listed))

\* api_containers: the record appended when container_status is falsy
NotFoundDetails(service) ==
    [name |-> service, title |-> "missing", description |-> "unknown",
     service_name |-> service, version |-> "unknown",
     status |-> "container not found", health |-> "unknown"]

\* api_containers: what is appended to container_list for the service
DetailsFor(listed, service) ==
    LET container_details == container_status(listed, service)
    IN IF container_details # PyNone /\ container_details # EmptyDict
       THEN container_details
       ELSE NotFoundDetails(service)

\* api_containers: the services of the compose file
DefaultServices ==
    <<"core", "web-interface", "security", "logging", "teams", "scheduler">>

\* the values of the query parameter 'container'; the empty text and an
\* absent parameter select the default list
NoContainerParam == ""
ContainerParams == {NoContainerParam, "core", "teams", "Unknown Service"}

\* request.args.get('container', None) and the choice of the list
ServicesOf(container) ==
    IF container # NoContainerParam THEN <<container>> ELSE DefaultServices

\* the DockerClient objects of the DockerApi under construction or in use,
\* in the order they were made, and the negotiated ones that an earlier
\* DockerApi of the request left open
NoHandles == [current |-> <<>>, unclosed |-> {}]

\* docker.DockerClient(base_url=attempt['url'], timeout=timeout), assigned
\* to self.client; negotiated once ping() returned
NewHandle(attempt, service, negotiated) ==
    [url |-> attempt.url, service |-> service, negotiated |-> negotiated,
     open |-> TRUE, queried |-> <<>>]

\* self.client.containers.list() in container_status: self.client is the
\* object made last
QueriedThrough(handles, service) ==
    [handles EXCEPT ![Len(handles)].queried = Append(@, service)]

\* DockerApi.__exit__: self.client.close()
__exit__(handles) ==
    [handles EXCEPT ![Len(handles)].open = FALSE]

\* the negotiated objects that are not closed
StillOpen(handles) ==
    {handles[i] : i \in {j \in DOMAIN handles :
                            handles[j].negotiated /\ handles[j].open}}

\* DockerApi.__init__ up to the loop, for the service at the head of the
\* list: the candidates are computed and nothing is tried yet
DockerApiInit ==
    /\ connection_attempts' =
          _get_connection_attempts(docker_env, docker_args.server,
                                   docker_args.port,
                                   ForceTcp(docker_env.method,
                                            docker_args.force_tcp))
    /\ attempted' = <<>>
    /\ connection_method' = NoMethod
    /\ last_exception' = NoException
    /\ docker_pc' = "negotiating"

\* GET /api/containers: the list of services is chosen and the first
\* DockerApi() is constructed
ApiContainers(container) ==
    /\ docker_pc = "idle"
    /\ req' = [method |-> "GET", body |-> [container |-> container]]
    /\ resp' = NoResponse
    /\ services' = ServicesOf(container)
    /\ container_list' = <<>>
    /\ client_handles' = NoHandles
    /\ DockerApiInit
    /\ UNCHANGED <<plugin_vars_kept, pc, effects, global_vars, su_vars,
                   docker_runtime, peer>>

\* variant of Attempt in which an exception that is no DockerException
\* leaves __init__ at once
AttemptCatchesDockerOnly(outcome) ==
    /\ docker_pc = "negotiating"
    /\ Len(attempted) < Len(connection_attempts)
    /\ LET attempt == connection_attempts[Len(attempted) + 1]
       IN /\ attempted' = Append(attempted,
                                 [url |-> attempt.url,
                                  method |-> attempt.method,
                                  outcome |-> outcome])
          /\ CASE outcome = "ok"
                   -> /\ connection_method' = attempt.method
                      /\ docker_pc' = "connected"
                      /\ UNCHANGED <<last_exception, resp>>
               [] outcome = "DockerException"
                   -> /\ last_exception' =
                            [type |-> outcome, url |-> attempt.url]
                      /\ UNCHANGED <<connection_method, docker_pc, resp>>
               [] OTHER
                   -> /\ resp' = [status |-> 500, result |-> "error",
                                  service |-> Head(services),
                                  error |-> [type |-> outcome,
                                             cause |-> NoException]]
                      /\ docker_pc' = "idle"
                      /\ UNCHANGED <<connection_method, last_exception>>
          /\ \E made \in (IF outcome = "ok" THEN {TRUE} ELSE BOOLEAN) :
                client_handles' =
                   IF made
                   THEN [client_handles EXCEPT
                            !.current = Append(@, NewHandle(attempt,
                                                            Head(services),
                                                            outcome = "ok"))]
                   ELSE client_handles
    /\ UNCHANGED <<plugin_vars_kept, pc, req, effects, global_vars,
                   su_vars, docker_runtime, services, container_list,
                   connection_attempts, peer>>

\* DockerApi.__init__, one turn of the loop: the next candidate is tried;
\* a candidate that fails does so in DockerClient(...), and no object is
\* made, or in ping(), and the object made is left as it is
Attempt(outcome) ==
    /\ docker_pc = "negotiating"
    /\ Len(attempted) < Len(connection_attempts)
    /\ LET attempt == connection_attempts[Len(attempted) + 1]
       IN /\ attempted' = Append(attempted,
                                 [url |-> attempt.url,
                                  method |-> attempt.method,
                                  outcome |-> outcome])
          /\ IF outcome = "ok"
             THEN /\ connection_method' = attempt.method
                  /\ docker_pc' = "connected"
                  /\ UNCHANGED last_exception
             ELSE /\ last_exception' = [type |-> outcome, url |-> attempt.url]
                  /\ UNCHANGED <<connection_method, docker_pc>>
          /\ \E made \in (IF outcome = "ok" THEN {TRUE} ELSE BOOLEAN) :
                client_handles' =
                   IF made
                   THEN [client_handles EXCEPT
                            !.current = Append(@, NewHandle(attempt,
                                                            Head(services),
                                                            outcome = "ok"))]
                   ELSE client_handles
    /\ UNCHANGED <<plugin_vars_kept, pc, req, resp, effects, global_vars,
                   su_vars, docker_runtime, services, container_list,
                   connection_attempts, peer>>

\* DockerApi.__init__ after the loop: ConnectionError from last_exception;
\* api_containers answers 500 and looks up no further service
AllAttemptsFailed ==
    /\ docker_pc = "negotiating"
    /\ Len(attempted) = Len(connection_attempts)
    /\ resp' = [status |-> 500, result |-> "error",
                service |-> Head(services),
                error |-> [type |-> "ConnectionError",
                           cause |-> last_exception]]
    /\ docker_pc' = "idle"
    /\ UNCHANGED <<plugin_vars_kept, pc, req, effects, global_vars, su_vars,
                   docker_runtime, services, container_list, docker_client,
                   client_handles, peer>>

\* variant of LookUp in which an exception of container_status leaves the
\* handler before the client is closed
LookUpLeavesOpenOnError(listing_ok) ==
    /\ docker_pc = "connected"
    /\ LET used == QueriedThrough(client_handles.current, Head(services))
           exited == __exit__(used)
       IN IF ~listing_ok
          THEN /\ resp' = [status |-> 500, result |-> "error",
                           service |-> Head(services),
                           error |-> [type |-> "APIError",
                                      cause |-> NoException]]
               /\ docker_pc' = "idle"
               /\ client_handles' = [client_handles EXCEPT !.current = used]
               /\ UNCHANGED <<services, container_list, docker_client>>
          ELSE /\ container_list' =
                     Append(container_list,
                            DetailsFor(containers, Head(services)))
               /\ services' = Tail(services)
               /\ IF Tail(services) = <<>>
                  THEN /\ resp' = [status |-> 200, result |-> "success",
                                   services |-> container_list']
                       /\ docker_pc' = "idle"
                       /\ client_handles' =
                             [client_handles EXCEPT !.current = exited]
                       /\ UNCHANGED docker_client
                  ELSE /\ resp' = resp
                       /\ client_handles' =
                             [current |-> <<>>,
                              unclosed |-> client_handles.unclosed
                                           \cup StillOpen(exited)]
                       /\ DockerApiInit
    /\ UNCHANGED <<plugin_vars_kept, pc, req, effects, global_vars, su_vars,
                   docker_runtime, peer>>

\* api_containers, the body of the with statement for one service:
\* container_status, whose listing of the containers can raise, and the
\* details or the placeholder; __exit__ closes the client on both ways
\* out; then the next DockerApi() or the response
LookUp(listing_ok) ==
    /\ docker_pc = "connected"
    /\ LET used == QueriedThrough(client_handles.current, Head(services))
           exited == __exit__(used)
       IN IF ~listing_ok
          THEN /\ resp' = [status |-> 500, result |-> "error",
                           service |-> Head(services),
                           error |-> [type |-> "APIError",
                                      cause |-> NoException]]
               /\ docker_pc' = "idle"
               /\ client_handles' = [client_handles EXCEPT !.current = exited]
               /\ UNCHANGED <<services, container_list, docker_client>>
          ELSE /\ container_list' =
                     Append(container_list,
                            DetailsFor(containers, Head(services)))
               /\ services' = Tail(services)
               /\ IF Tail(services) = <<>>
                  THEN /\ resp' = [status |-> 200, result |-> "success",
                                   services |-> container_list']
                       /\ docker_pc' = "idle"
                       /\ client_handles' =
                             [client_handles EXCEPT !.current = exited]
                       /\ UNCHANGED docker_client
                  ELSE /\ resp' = resp
                       /\ client_handles' =
                             [current |-> <<>>,
                              unclosed |-> client_handles.unclosed
                                           \cup StillOpen(exited)]
                       /\ DockerApiInit
    /\ UNCHANGED <<plugin_vars_kept, pc, req, effects, global_vars, su_vars,
                   docker_runtime, peer>>

DockerNext ==
    \/ \E c \in ContainerParams : ApiContainers(c)
    \/ \E o \in AttemptOutcomes : Attempt(o)
    \/ AllAttemptsFailed
    \/ \E ok \in BOOLEAN : LookUp(ok)

\* no DockerApi exists and no request of /api/containers is handled
DockerIdle ==
    /\ docker_pc = "idle"
    /\ services = <<>>
    /\ container_list = <<>>
    /\ connection_attempts = <<>>
    /\ attempted = <<>>
    /\ connection_method = NoMethod
    /\ last_exception = NoException
    /\ client_handles = NoHandles

\* the docker runtime takes no part
NoDocker ==
    /\ docker_env = [method |-> EnvUnset, platform |-> "Linux",
                     socket_exists |-> TRUE]
    /\ docker_args = [server |-> DOCKER_SERVER_FALLBACK, port |-> 2375,
                      force_tcp |-> FALSE]
    /\ containers = <<>>
    /\ DockerIdle

NoText == <<>>

\* the environments a DockerApi is constructed in
DockerEnvMethods ==
    {EnvUnset, EnvSet(<<"a", "u", "t", "o">>), EnvSet(<<"t", "c", "p">>),
     EnvSet(<<"T", "c", "p">>), EnvSet(<<"s", "o", "c", "k", "e", "t">>)}
DockerEnvs ==
    [method : DockerEnvMethods, platform : {"Linux", "Windows"},
     socket_exists : BOOLEAN]
DockerArgs ==
    [server : {DOCKER_SERVER_FALLBACK, "localhost"}, port : {2375},
     force_tcp : BOOLEAN]

\* the negotiation in every environment; the runtime lists no container
DockerInit ==
    /\ docker_env \in DockerEnvs
    /\ docker_args \in DockerArgs
    /\ containers = <<>>
    /\ DockerIdle
    /\ peer = NoPeer
    /\ plugin_file = DEFAULT_PLUGIN_FILE
    /\ files = [f \in FileNames |-> Doc(<<>>)]
    /\ plugin_config = List(<<>>)
    /\ pc = "ready"
    /\ req = NoRequest
    /\ resp = NoResponse
    /\ effects = <<>>
    /\ global_file = EmptyFile /\ global_config = None
    /\ su_name = NoText /\ su_url = NoText /\ su_out = NoText

DockerSpec == DockerInit /\ [][DockerNext]_vars

\* the loop of __init__ and the statement after it run to their end: no
\* call in them waits longer than the timeout of the client
DockerFairSpec ==
    /\ DockerSpec
    /\ WF_vars(\E o \in AttemptOutcomes : Attempt(o))
    /\ WF_vars(AllAttemptsFailed)

\* running containers: the labels of their images, their status and health
CoreLabels ==
    (ServiceLabel :> "core") @@ (TitleLabel :> "Core Service")
    @@ (DescriptionLabel :> "The core") @@ (VersionLabel :> "1.0")
RunningContainers ==
    {[name |-> "core-1", status |-> "running", health |-> "healthy",
      labels |-> CoreLabels],
     [name |-> "core-2", status |-> "restarting", health |-> "starting",
      labels |-> (ServiceLabel :> "core")],
     [name |-> "teams-plugin", status |-> "running", health |-> "unhealthy",
      labels |-> (PluginLabel :> "teams") @@ (VersionLabel :> "2.1")],
     [name |-> "db", status |-> "running", health |-> "unknown",
      labels |-> NoLabels]}

RECURSIVE ContainersOfLength(_)
ContainersOfLength(n) ==
    IF n = 0 THEN {<<>>}
    ELSE UNION {{Append(l, c) :
                    c \in RunningContainers \ {l[i] : i \in DOMAIN l}} :
                l \in ContainersOfLength(n - 1)}

ContainerLists == UNION {ContainersOfLength(n) : n \in 0..MaxContainers}

\* the status queries on every list of running containers, in the
\* environment of the compose file
StatusInit ==
    /\ docker_env = [method |-> EnvUnset, platform |-> "Linux",
                     socket_exists |-> TRUE]
    /\ docker_args = [server |-> DOCKER_SERVER_FALLBACK, port |-> 2375,
                      force_tcp |-> FALSE]
    /\ containers \in ContainerLists
    /\ DockerIdle
    /\ peer = NoPeer
    /\ plugin_file = DEFAULT_PLUGIN_FILE
    /\ files = [f \in FileNames |-> Doc(<<>>)]
    /\ plugin_config = List(<<>>)
    /\ pc = "ready"
    /\ req = NoRequest
    /\ resp = NoResponse
    /\ effects = <<>>
    /\ global_file = EmptyFile /\ global_config = None
    /\ su_name = NoText /\ su_url = NoText /\ su_out = NoText

StatusSpec == StatusInit /\ [][DockerNext]_vars


\* main.py: PluginConfig() and load_config() before the first request; the
\* global configuration takes no part in this specification
PluginInit ==
    /\ plugin_file = DEFAULT_PLUGIN_FILE
    /\ \E d \in InitDocs :
          /\ files = [f \in FileNames |-> Doc(d)]
          /\ plugin_config = load_config(Doc(d)).config
    /\ pc = "ready"
    /\ req = NoRequest
    /\ resp = NoResponse
    /\ effects = <<>>
    /\ global_file = EmptyFile /\ global_config = None
    /\ su_name = NoText /\ su_url = NoText /\ su_out = NoText
    /\ NoDocker
    /\ peer = NoPeer

\* the touch of the sentinel can fail only when it is attempted
TouchOutcomes(wr) == IF wr = "ok" THEN BOOLEAN ELSE {FALSE}

PluginNext ==
    \/ ApiPluginsLoad
    \/ \E n \in Names : ApiPluginsGet(n)
    \/ ApiPluginsGetAll
    \/ \E b \in RegisterBodies, wr \in WriteOutcomes :
          \E t \in TouchOutcomes(wr) : ApiPluginsPost(b, wr, t)
    \/ \E b \in UpdateBodies, wr \in WriteOutcomes :
          \E t \in TouchOutcomes(wr) : ApiPluginsPatch(b, wr, t)
    \/ \E n \in Names, wr \in WriteOutcomes :
          \E t \in TouchOutcomes(wr) : ApiPluginsDelete(n, wr, t)

PluginSpec == PluginInit /\ [][PluginNext]_vars

\* GlobalConfig(): self.config = {} and the file is not read yet; the plugin
\* registry takes no part in this specification
GlobalInit ==
    /\ \E d \in StartDocs : global_file = Doc(d)
    /\ global_config = [kind |-> "dict", items |-> EmptyObject]
    /\ plugin_file = DEFAULT_PLUGIN_FILE
    /\ files = [f \in FileNames |-> Doc(<<>>)]
    /\ plugin_config = List(<<>>)
    /\ pc = "start"
    /\ req = NoRequest
    /\ resp = NoResponse
    /\ effects = <<>>
    /\ su_name = NoText /\ su_url = NoText /\ su_out = NoText
    /\ NoDocker
    /\ peer = NoPeer

\* main.py, global_config(): load_config() before the first request; an
\* exception it raises ends the process
MainGlobalConfig ==
    LET ld == global_load_config(global_file)
    IN /\ pc = "start"
       /\ global_config' = ld.config
       /\ effects' = <<GlobalLoadEvent(ld.logged)>>
       /\ pc' = IF ld.raised THEN "aborted" ELSE "ready"
       /\ UNCHANGED <<plugin_vars_kept, global_file, req, resp, su_vars,
                   docker_vars, peer>>

GlobalNext ==
    \/ MainGlobalConfig
    \/ ApiConfigLoad
    \/ ApiConfigGet
    \/ \E d \in Patches, wr \in WriteOutcomes :
          \E t \in TouchOutcomes(wr) : ApiConfigPatch(d, wr, t)

GlobalSpec == GlobalInit /\ [][GlobalNext]_vars

(***************************************************************************)
(* Both routes of the API together, on a few requests of each kind        *)
(***************************************************************************)
GoodWebhook ==
    [url |-> <<"h", ":">>, secret |-> "s3cret", allowed_ip |-> <<Addr1>>]
BadWebhook ==
    [url |-> <<"h", ":">>, secret |-> "s3cret", allowed_ip |-> <<Addr1, Bad1>>]

ApiRegisterBodies ==
    [name : Names, description : {"first"}, webhook : {GoodWebhook, BadWebhook}]

ApiUpdateBodies ==
    {[plugin_name |-> n, name |-> n, description |-> "second",
      webhook |-> GoodWebhook] : n \in Names}
    \cup MalformedUpdates

ApiPatches ==
    {PatchOf("azure", 1), WebPatch("web", <<"D", "E", "B", "U", "G">>),
     [PatchOf("azure", 1) EXCEPT !.category = "bogus"], JsonNull}
    \cup MalformedPatches

\* main.py: both managers are constructed and loaded before the first
\* request
ApiInit ==
    /\ plugin_file = DEFAULT_PLUGIN_FILE
    /\ files = [f \in FileNames |-> Doc(<<EntryA>>)]
    /\ plugin_config = load_config(Doc(<<EntryA>>)).config
    /\ global_file = Doc(StartConfig)
    /\ global_config = global_load_config(Doc(StartConfig)).config
    /\ pc = "ready"
    /\ req = NoRequest
    /\ resp = NoResponse
    /\ effects = <<>>
    /\ su_name = NoText /\ su_url = NoText /\ su_out = NoText
    /\ NoDocker
    /\ peer = NoPeer

\* the route of the request being handled
InPlugins == effects # <<>> /\ effects[1].target = DEFAULT_PLUGIN_FILE
InConfig == effects # <<>> /\ effects[1].target = DEFAULT_CONFIG_FILE

ApiNext ==
    \/ ApiPluginsLoad
    \/ ApiConfigLoad
    \/ \E n \in Names : InPlugins /\ ApiPluginsGet(n)
    \/ InPlugins /\ ApiPluginsGetAll
    \/ \E b \in ApiRegisterBodies, wr \in WriteOutcomes :
          \E t \in TouchOutcomes(wr) : InPlugins /\ ApiPluginsPost(b, wr, t)
    \/ \E b \in ApiUpdateBodies, wr \in WriteOutcomes :
          \E t \in TouchOutcomes(wr) : InPlugins /\ ApiPluginsPatch(b, wr, t)
    \/ \E n \in Names, wr \in WriteOutcomes :
          \E t \in TouchOutcomes(wr) : InPlugins /\ ApiPluginsDelete(n, wr, t)
    \/ InConfig /\ ApiConfigGet
    \/ \E d \in ApiPatches, wr \in WriteOutcomes :
          \E t \in TouchOutcomes(wr) : InConfig /\ ApiConfigPatch(d, wr, t)

ApiSpec == ApiInit /\ [][ApiNext]_vars

(***************************************************************************)
(* The plugin route of a PluginConfig constructed with a file name of its  *)
(* own                                                                     *)
(***************************************************************************)
\* PluginConfig(CustomPluginFile) and load_config() before the first
\* request; both files hold the same document then
CustomFileInit ==
    /\ plugin_file = CustomPluginFile
    /\ \E d \in InitDocs :
          /\ files = [f \in CustomFileNames |-> Doc(d)]
          /\ plugin_config = load_config(Doc(d)).config
    /\ pc = "ready"
    /\ req = NoRequest
    /\ resp = NoResponse
    /\ effects = <<>>
    /\ global_file = EmptyFile /\ global_config = None
    /\ su_name = NoText /\ su_url = NoText /\ su_out = NoText
    /\ NoDocker
    /\ peer = NoPeer

CustomFileNext ==
    \/ ApiPluginsLoad
    \/ \E n \in Names : ApiPluginsGet(n)
    \/ ApiPluginsGetAll
    \/ \E b \in ApiRegisterBodies, wr \in WriteOutcomes :
          \E t \in TouchOutcomes(wr) : ApiPluginsPost(b, wr, t)
    \/ \E b \in ApiUpdateBodies, wr \in WriteOutcomes :
          \E t \in TouchOutcomes(wr) : ApiPluginsPatch(b, wr, t)
    \/ \E n \in Names, wr \in WriteOutcomes :
          \E t \in TouchOutcomes(wr) : ApiPluginsDelete(n, wr, t)

CustomFileSpec == CustomFileInit /\ [][CustomFileNext]_vars

(***************************************************************************)
(* GET /api/plugins as the handler dispatches it on the header, with a     *)
(* plugin whose name is the word that asks for the whole list              *)
(***************************************************************************)
AllName == <<"a", "l", "l">>

\* request.headers.get('X-Plugin-Name') of a request without the header,
\* or with an empty one: 'not plugin_name' holds for both
NoHeader == <<>>

HeaderValues == Names \cup {AllName, NoHeader}

\* api_plugins, GET without a usable X-Plugin-Name header
ApiPluginsGetNoHeader ==
    /\ pc = "loaded"
    /\ pc' = "ready"
    /\ req' = [method |-> "GET", body |-> [name |-> NoHeader]]
    /\ resp' = ErrorResponse("Missing X-Plugin-Name header")
    /\ UNCHANGED <<plugin_vars_kept, effects, su_vars, global_vars,
                   docker_vars, peer>>

\* api_plugins, the branch of GET: the header is tested for absence, then
\* for the word all, and only then looked up as a name
ApiPluginsGetByHeader(plugin_name) ==
    IF plugin_name = NoHeader THEN ApiPluginsGetNoHeader
    ELSE IF plugin_name = AllName THEN ApiPluginsGetAll
    ELSE ApiPluginsGet(plugin_name)

EntryAll == [EntryA EXCEPT !.name = AllName]
HeaderDocs == {<<>>, <<EntryA>>, <<EntryAll>>, <<EntryA, EntryAll>>}
HeaderRegisterBodies ==
    [name : Names \cup {AllName}, description : {"first"},
     webhook : {GoodWebhook}]

HeaderInit ==
    /\ plugin_file = DEFAULT_PLUGIN_FILE
    /\ \E d \in HeaderDocs :
          /\ files = [f \in FileNames |-> Doc(d)]
          /\ plugin_config = load_config(Doc(d)).config
    /\ pc = "ready"
    /\ req = NoRequest
    /\ resp = NoResponse
    /\ effects = <<>>
    /\ global_file = EmptyFile /\ global_config = None
    /\ su_name = NoText /\ su_url = NoText /\ su_out = NoText
    /\ NoDocker
    /\ peer = NoPeer

HeaderNext ==
    \/ ApiPluginsLoad
    \/ \E h \in HeaderValues : ApiPluginsGetByHeader(h)
    \/ \E b \in HeaderRegisterBodies, wr \in WriteOutcomes :
          \E t \in TouchOutcomes(wr) : ApiPluginsPost(b, wr, t)
    \/ \E n \in Names \cup {AllName}, wr \in WriteOutcomes :
          \E t \in TouchOutcomes(wr) : ApiPluginsDelete(n, wr, t)

HeaderSpec == HeaderInit /\ [][HeaderNext]_vars

(***************************************************************************)
(* Two workers of the service, each with a PluginConfig of its own, handle *)
(* requests of /api/plugins at the same time on the one durable document   *)
(***************************************************************************)
\* the second worker, api_plugins, first step: plugin_config.load_config()
PeerLoad ==
    LET ld == load_config(files[plugin_file])
    IN /\ peer.pc = "ready"
       /\ peer' = [pc |-> IF ld.raised THEN "ready" ELSE "loaded",
                   config |-> ld.config,
                   req |-> NoRequest,
                   resp |-> IF ld.raised THEN ServerError ELSE NoResponse,
                   effects |-> <<LoadEvent>>]
       /\ UNCHANGED <<plugin_vars_kept, pc, req, resp, effects, global_vars,
                      su_vars, docker_vars>>

\* what api_plugins answers for what the manager's method returned
PeerResponse(r, done, failed) ==
    IF r.raised THEN ServerError
    ELSE IF r.result THEN SuccessResponse(done)
    ELSE ErrorResponse(failed)

\* variant of PeerPost that reads the document again right before it
\* registers, as it would while holding a lock on the document
PeerPostReloads(body, wr, touched) ==
    LET fresh == load_config(files[plugin_file]).config.items
        r == register(fresh, files[DEFAULT_PLUGIN_FILE], body, wr)
    IN /\ peer.pc = "loaded"
       /\ Len(fresh) < MaxPlugins
       /\ files' = [files EXCEPT ![DEFAULT_PLUGIN_FILE] = r.file]
       /\ peer' = [pc |-> "ready",
                   config |-> List(r.config),
                   req |-> [method |-> "POST", body |-> body],
                   resp |-> PeerResponse(r, "Plugin added successfully",
                                         "Failed to add plugin"),
                   effects |-> peer.effects
                               \o <<CallEvent(body, r)>> \o r.effects
                               \o (IF r.result THEN <<TouchEvent(touched)>>
                                   ELSE <<>>)]
       /\ UNCHANGED <<plugin_file, plugin_config, pc, req, resp, effects,
                      global_vars, su_vars, docker_vars>>

\* the second worker, POST /api/plugins: register on the collection it
\* loaded at the top of its request, and the write of the document
PeerPost(body, wr, touched) ==
    LET r == register(peer.config.items, files[DEFAULT_PLUGIN_FILE], body, wr)
    IN /\ peer.pc = "loaded"
       /\ Len(peer.config.items) < MaxPlugins
       /\ files' = [files EXCEPT ![DEFAULT_PLUGIN_FILE] = r.file]
       /\ peer' = [pc |-> "ready",
                   config |-> List(r.config),
                   req |-> [method |-> "POST", body |-> body],
                   resp |-> PeerResponse(r, "Plugin added successfully",
                                         "Failed to add plugin"),
                   effects |-> peer.effects
                               \o <<CallEvent(body, r)>> \o r.effects
                               \o (IF r.result THEN <<TouchEvent(touched)>>
                                   ELSE <<>>)]
       /\ UNCHANGED <<plugin_file, plugin_config, pc, req, resp, effects,
                      global_vars, su_vars, docker_vars>>

\* both workers have loaded the document at their start
ConcurrentInit ==
    /\ plugin_file = DEFAULT_PLUGIN_FILE
    /\ \E d \in {<<>>, <<EntryA>>} :
          /\ files = [f \in FileNames |-> Doc(d)]
          /\ plugin_config = load_config(Doc(d)).config
          /\ peer = [NoPeer EXCEPT !.pc = "ready",
                                   !.config = load_config(Doc(d)).config]
    /\ pc = "ready"
    /\ req = NoRequest
    /\ resp = NoResponse
    /\ effects = <<>>
    /\ global_file = EmptyFile /\ global_config = None
    /\ su_name = NoText /\ su_url = NoText /\ su_out = NoText
    /\ NoDocker

\* the steps of the two requests interleave freely: nothing in the
\* handler or in the manager takes a lock
ConcurrentNext ==
    \/ ApiPluginsLoad
    \/ \E b \in ApiRegisterBodies, wr \in WriteOutcomes :
          \E t \in TouchOutcomes(wr) : ApiPluginsPost(b, wr, t)
    \/ PeerLoad
    \/ \E b \in ApiRegisterBodies, wr \in WriteOutcomes :
          \E t \in TouchOutcomes(wr) : PeerPost(b, wr, t)

ConcurrentSpec == ConcurrentInit /\ [][ConcurrentNext]_vars

(***************************************************************************)
(* The API next to other processes that rewrite the durable documents      *)
(* between two requests                                                    *)
(***************************************************************************)
\* another process replaces the plugin document while no request is handled
EditPluginFile(d) ==
    /\ pc = "ready"
    /\ files[plugin_file] # Doc(d)
    /\ files' = [files EXCEPT ![plugin_file] = Doc(d)]
    /\ UNCHANGED <<plugin_file, plugin_config, pc, req, resp, effects,
                   global_vars, su_vars,
                   docker_vars, peer>>

\* another process replaces the global configuration document while no
\* request is handled
EditConfigFile(d) ==
    /\ pc = "ready"
    /\ global_file # Doc(d)
    /\ global_file' = Doc(d)
    /\ UNCHANGED <<plugin_vars_kept, global_config, pc, req, resp, effects,
                   su_vars,
                   docker_vars, peer>>

\* the documents the other processes write
EditedPluginDocs == {<<>>, <<EntryBStored>>, <<EntryBNoSecret, EntryA>>}
EditedConfigDocs == {StartConfigExtra, StartConfigNoSection}

\* read requests of both routes, and one kind of write request of each
ReloadNext ==
    \/ ApiPluginsLoad
    \/ ApiConfigLoad
    \/ \E n \in Names : InPlugins /\ ApiPluginsGet(n)
    \/ InPlugins /\ ApiPluginsGetAll
    \/ \E n \in Names, wr \in WriteOutcomes :
          \E t \in TouchOutcomes(wr) : InPlugins /\ ApiPluginsDelete(n, wr, t)
    \/ InConfig /\ ApiConfigGet
    \/ \E wr \in WriteOutcomes :
          \E t \in TouchOutcomes(wr) :
             InConfig /\ ApiConfigPatch(PatchOf("azure", 1), wr, t)
    \/ \E d \in EditedPluginDocs : EditPluginFile(d)
    \/ \E d \in EditedConfigDocs : EditConfigFile(d)

ReloadSpec == ApiInit /\ [][ReloadNext]_vars

(***************************************************************************)
(* The safe_url derivation on its own                                      *)
(***************************************************************************)
Alphabet == {"A", "_", " ", "#", ":", "/", "%"}

RECURSIVE TextsOfLength(_)
TextsOfLength(n) ==
    IF n = 0 THEN {<<>>}
    ELSE {Append(t, c) : t \in TextsOfLength(n - 1), c \in Alphabet}

Texts == UNION {TextsOfLength(n) : n \in 0..MaxStrLen}

\* the registry and the global configuration take no part here
SafeUrlInit ==
    /\ su_name \in Texts
    /\ su_url \in Texts
    /\ su_out = NoText
    /\ plugin_file = DEFAULT_PLUGIN_FILE
    /\ files = [f \in FileNames |-> Doc(<<>>)]
    /\ plugin_config = List(<<>>)
    /\ pc = "ready"
    /\ req = NoRequest
    /\ resp = NoResponse
    /\ effects = <<>>
    /\ global_file = EmptyFile /\ global_config = None
    /\ NoDocker
    /\ peer = NoPeer

\* the body of load_config's loop for one entry
Derive ==
    /\ su_out = NoText
    /\ su_out' = SafeUrl(su_name, su_url)
    /\ UNCHANGED <<su_name, su_url, plugin_vars_kept, pc, req, resp, effects,
                   global_vars,
                   docker_vars, peer>>

SafeUrlSpec == SafeUrlInit /\ [][Derive]_vars

(***************************************************************************)
(* Loading plugin documents that were written by hand                      *)
(***************************************************************************)
\* EntryA with one required field left out, or with a webhook key that has
\* no value
IncompleteEntries ==
    {Without(EntryA, {f}) : f \in {"name", "description", "webhook"}}
    \cup {[EntryA EXCEPT !.webhook = Without(@, {f})] :
             f \in {"url", "secret", "allowed_ip"}}
    \cup {[EntryA EXCEPT !.webhook = YamlNull]}

LoadEntries == {EntryA, EntryBStored} \cup IncompleteEntries

RECURSIVE DocsOfLength(_)
DocsOfLength(n) ==
    IF n = 0 THEN {<<>>}
    ELSE {Append(d, e) : d \in DocsOfLength(n - 1), e \in LoadEntries}

LoadDocs == UNION {DocsOfLength(n) : n \in 0..MaxPlugins}

\* PluginConfig(): self.config = [] and the file is not read yet
LoadInit ==
    /\ plugin_file = DEFAULT_PLUGIN_FILE
    /\ \E d \in LoadDocs : files = [f \in FileNames |-> Doc(d)]
    /\ plugin_config = List(<<>>)
    /\ pc = "start"
    /\ req = NoRequest
    /\ resp = NoResponse
    /\ effects = <<>>
    /\ global_file = EmptyFile /\ global_config = None
    /\ su_name = NoText /\ su_url = NoText /\ su_out = NoText
    /\ NoDocker
    /\ peer = NoPeer

\* main.py, plugin_config(): load_config() before the first request; an
\* exception it raises ends the process
MainPluginConfig ==
    LET ld == load_config(files[plugin_file])
    IN /\ pc = "start"
       /\ plugin_config' = ld.config
       /\ effects' = <<LoadEvent>>
       /\ pc' = IF ld.raised THEN "aborted" ELSE "ready"
       /\ UNCHANGED <<plugin_file, files, req, resp, su_vars, global_vars,
                   docker_vars, peer>>

LoadNext ==
    \/ MainPluginConfig
    \/ ApiPluginsLoad
    \/ ApiPluginsGetAll

LoadSpec == LoadInit /\ [][LoadNext]_vars

(***************************************************************************)
(* Properties of the plugin registry (PluginSpec)                          *)
(***************************************************************************)
NameTaken(items, name) == name \in {items[i].name : i \in DOMAIN items}

WriteFailed(events) ==
    \E i \in DOMAIN events :
        events[i].ev = "write" /\ events[i].outcome # "ok"
WriteAttempted(events) == \E i \in DOMAIN events : events[i].ev = "write"
Audited(events) == \E i \in DOMAIN events : events[i].ev = "audit"

IsAddress(e) == ip_address(e)
IsAddressOrNetwork(e) == ip_address(e) \/ ip_network(e)
AllAddresses(list) == \A i \in DOMAIN list : IsAddress(list[i])
AllAddressesOrNetworks(list) ==
    \A i \in DOMAIN list : IsAddressOrNetwork(list[i])

\* a step that answers a request of the method
Answers(method) == pc = "loaded" /\ pc' = "ready" /\ req'.method = method

\* what GET by name answers for the name once the document is reloaded:
\* a record equal to the registered one, with a non-empty safe_url
GetReturnsRegistered(file, body) ==
    LET ld == load_config(file)
        i == get_plugin_by_name(ld.config.items, body.name)
    IN /\ ~ld.raised
       /\ i # 0
       /\ LET got == ld.config.items[i]
          IN /\ got.name = body.name
             /\ got.description = body.description
             /\ got.webhook.url = body.webhook.url
             /\ got.webhook.secret = body.webhook.secret
             /\ got.webhook.allowed_ip = body.webhook.allowed_ip
             /\ "safe_url" \in DOMAIN got.webhook
             /\ got.webhook.safe_url # <<>>

NamesDistinct(items) ==
    \A i, j \in DOMAIN items : i # j => items[i].name # items[j].name

\* C2: no two plugin records share a name, in memory or in the durable
\* document, in any state reached from documents with distinct names.
C2_UniqueNames ==
    /\ NamesDistinct(plugin_config.items)
    /\ NamesDistinct(files[DEFAULT_PLUGIN_FILE].items)

\* C3: a registration whose name is already in the collection fails and
\* leaves the collection and the durable document as they were, with no
\* write and no audit-log entry.
C3_DuplicateRejected ==
    [][(/\ Answers("POST")
        /\ NameTaken(plugin_config.items, req'.body.name))
       => /\ resp'.status = 400
          /\ plugin_config' = plugin_config
          /\ files' = files
          /\ ~WriteAttempted(effects')
          /\ ~Audited(effects')]_vars

\* C3 witness: a registration with valid addresses was refused although no
\* write was attempted, the name being in the collection
C3_Witness ==
    /\ pc = "ready" /\ req.method = "POST" /\ resp.status = 400
    /\ NameTaken(plugin_config.items, req.body.name)
    /\ AllAddresses(req.body.webhook.allowed_ip)
    /\ ~WriteAttempted(effects)

HasBadEntry(list) == \E i \in DOMAIN list : ~IsAddressOrNetwork(list[i])

\* C4: register and update with an allowed-ip entry that is neither an IP
\* address nor an IP network fail and do not write the plugin document.
C4_BadEntryRejected ==
    [][(/\ Answers("POST") \/ Answers("PATCH")
        /\ HasBadEntry(req'.body.webhook.allowed_ip))
       => /\ resp'.status = 400
          /\ files' = files
          /\ ~WriteAttempted(effects')]_vars

\* C4 witness: an update of an existing plugin was refused for its bad
\* entry, which the record in memory now holds
C4_Witness ==
    /\ pc = "ready" /\ req.method = "PATCH" /\ resp.status = 400
    /\ HasBadEntry(req.body.webhook.allowed_ip)
    /\ \E i \in DOMAIN plugin_config.items :
          plugin_config.items[i].webhook.allowed_ip
              = req.body.webhook.allowed_ip

\* a request that fails for no reason other than its allowed-ip list
OtherwiseValid ==
    /\ Answers("POST") \/ Answers("PATCH")
    /\ Answers("POST") => ~NameTaken(plugin_config.items, req'.body.name)
    /\ Answers("PATCH")
          => /\ "plugin_name" \in DOMAIN req'.body
             /\ AssignedCount(req'.body) = Len(AssignedFields)
             /\ NameTaken(plugin_config.items, req'.body.plugin_name)
    /\ ~WriteFailed(effects')

OneRemoved(before, after, name) ==
    \E i \in DOMAIN before :
        /\ before[i].name = name
        /\ after = SubSeq(before, 1, i - 1)
                   \o SubSeq(before, i + 1, Len(before))

\* C6 as stated: delete of an absent name fails and changes neither the
\* collection nor the document; delete of a present name removes exactly
\* one record and persists the remaining records.
C6_Original ==
    [][Answers("DELETE")
       => IF ~NameTaken(plugin_config.items, req'.body.name)
          THEN /\ resp'.status = 400
               /\ plugin_config' = plugin_config
               /\ files' = files
          ELSE /\ OneRemoved(plugin_config.items, plugin_config'.items,
                             req'.body.name)
               /\ files'[DEFAULT_PLUGIN_FILE] = Doc(plugin_config'.items)]_vars

\* C6 amended: delete of an absent name fails and changes neither the
\* collection nor the document; delete of a present name removes exactly
\* one record from the collection, keeping all others, and, when the
\* durable write does not fail, persists the remaining records and
\* succeeds.
C6_Delete ==
    [][Answers("DELETE")
       => IF ~NameTaken(plugin_config.items, req'.body.name)
          THEN /\ resp'.status = 400
               /\ plugin_config' = plugin_config
               /\ files' = files
          ELSE /\ OneRemoved(plugin_config.items, plugin_config'.items,
                             req'.body.name)
               /\ ~WriteFailed(effects')
                     => /\ resp'.status = 200
                        /\ files'[DEFAULT_PLUGIN_FILE]
                               = Doc(plugin_config'.items)]_vars

\* C6 witness: a delete succeeded and left a record behind
C6_Witness ==
    /\ pc = "ready" /\ req.method = "DELETE" /\ resp.status = 200
    /\ Len(plugin_config.items) >= 1
    /\ files[DEFAULT_PLUGIN_FILE] = Doc(plugin_config.items)

StoresSafeUrl(items) ==
    \E i \in DOMAIN items : "safe_url" \in DOMAIN WebhookOf(items[i])

\* C7: after a successful register, update or delete, no record of the
\* persisted plugin document contains a safe_url field.
C7_SafeUrlNotPersisted ==
    (/\ pc = "ready"
     /\ req.method \in {"POST", "PATCH", "DELETE"}
     /\ resp.status = 200)
    => ~StoresSafeUrl(files[DEFAULT_PLUGIN_FILE].items)

\* C8: after load_config every surviving record carries the safe_url
\* derived from its own name and url, whatever the document stored.
C8_SafeUrlRecomputed ==
    pc = "loaded"
    => \A i \in DOMAIN plugin_config.items :
          LET entry == plugin_config.items[i]
          IN /\ "safe_url" \in DOMAIN entry.webhook
             /\ entry.webhook.safe_url
                    = SafeUrl(entry.name, entry.webhook.url)

\* C8 witness: the document loaded stores a safe_url that is not the one
\* derived from the record's name and url
C8_Witness ==
    /\ pc = "loaded"
    /\ \E i \in DOMAIN files[plugin_file].items :
          LET stored == files[plugin_file].items[i]
          IN /\ ValidEntry(stored)
             /\ "safe_url" \in DOMAIN stored.webhook
             /\ stored.webhook.safe_url
                    # SafeUrl(stored.name, stored.webhook.url)

(***************************************************************************)
(* Properties of the safe_url derivation (SafeUrlSpec)                     *)
(***************************************************************************)
\* what the claim asks of one character of the path: a space becomes '_',
\* a '#' goes, any other character is put in lower case and, unless quote
\* holds it safe, percent-encoded
RouteChar(c) ==
    IF c = " " THEN <<"_">>
    ELSE IF c = "#" THEN <<>>
    ELSE LET l == IF c \in UpperCase
                  THEN LowerSeq[CHOOSE i \in DOMAIN UpperSeq : UpperSeq[i] = c]
                  ELSE c
         IN IF l \in QuoteSafe THEN <<l>> ELSE <<"%">> \o HexCode(l)

RECURSIVE RouteOf(_)
RouteOf(path) ==
    IF path = <<>> THEN <<>> ELSE RouteChar(Head(path)) \o RouteOf(Tail(path))

\* an upper-case letter of the route is a digit of a percent escape
InEscape(route, i) ==
    \/ i > 1 /\ route[i - 1] = "%"
    \/ i > 2 /\ route[i - 2] = "%"

\* C9 as stated: the safe_url of a name and a url is lower case, with every
\* space mapped to '_', every '#' removed and the remaining characters
\* percent-encoded.
C9_Original ==
    su_out # NoText
    => /\ su_out = RouteOf(RoutePath(su_name, su_url))
       /\ Range(su_out) \cap UpperCase = {}

\* C9 amended: the safe_url of a name and a url is the path in lower case
\* with every space mapped to '_', every '#' removed and the remaining
\* characters percent-encoded; it holds no upper-case letter except the
\* hexadecimal digits of its percent escapes, which are upper case.
C9_SafeUrlShape ==
    su_out # NoText
    => /\ su_out = RouteOf(RoutePath(su_name, su_url))
       /\ \A i \in DOMAIN su_out :
             su_out[i] \in UpperCase => InEscape(su_out, i)
       /\ Range(su_out) \cap {" ", "#"} = {}

\* C9 witness: a route derived from a name with an upper-case letter and a
\* space and a url with a '#' and a character that gets encoded
C9_Witness ==
    /\ su_out # NoText
    /\ {"A", " "} \subseteq Range(su_name)
    /\ {"#", ":"} \subseteq Range(su_url)

(***************************************************************************)
(* Properties of the global configuration (GlobalSpec)                     *)
(***************************************************************************)
\* C10: update_config with a category that is none of the five sections
\* fails, writes nothing and changes no section in memory.
C10_UnknownCategory ==
    [][(/\ Answers("PATCH")
        /\ "category" \in DOMAIN req'.body
        /\ req'.body.category \notin
              {"azure", "authentication", "teams", "sql", "web"})
       => /\ resp'.status = 400
          /\ global_file' = global_file
          /\ global_config' = global_config
          /\ ~WriteAttempted(effects')]_vars

\* C10 witness: a patch of category 'Web' was refused
C10_Witness ==
    /\ pc = "ready" /\ req.method = "PATCH" /\ resp.status = 400
    /\ "category" \in DOMAIN req.body
    /\ req.body.category = "Web"
    /\ ~WriteAttempted(effects)

Recognised == {"azure", "authentication", "teams", "sql", "web"}

\* the request answered is a PATCH whose body names a recognised category
PatchesSection ==
    /\ Answers("PATCH")
    /\ "category" \in DOMAIN req'.body
    /\ req'.body.category \in Recognised

\* the keys of the section that update_config assigns for the category
SectionKeysOf(category) ==
    {PatchKeys[category][p] : p \in DOMAIN PatchKeys[category]}

WriteSucceeded(events) ==
    \E i \in DOMAIN events :
        events[i].ev = "write" /\ events[i].outcome = "ok"

\* every section but the one named, and every key of the one named that
\* update_config does not assign, is in the document after as it was in the
\* document before
OnlySectionChanged(before, after, category) ==
    /\ DOMAIN after = DOMAIN before
    /\ \A sec \in DOMAIN before \ {category} : after[sec] = before[sec]
    /\ \A k \in DOMAIN before[category] \ SectionKeysOf(category) :
          /\ k \in DOMAIN after[category]
          /\ after[category][k] = before[category][k]

\* C11: update_config with a recognised category changes only the keys of
\* the selected section; every other section is the same as before, in
\* memory and in the rewritten durable document.
C11_OnlySelectedSection ==
    [][PatchesSection
       => /\ OnlySectionChanged(global_config.items, global_config'.items,
                                req'.body.category)
          /\ WriteSucceeded(effects')
                => /\ global_file'.kind = "doc"
                   /\ OnlySectionChanged(global_file.items,
                                         global_file'.items,
                                         req'.body.category)]_vars

\* C11 witness: the web section of a document that has a key of its own
\* next to logging-level was updated and rewritten, and azure before it
C11_Witness ==
    /\ pc = "ready" /\ req.method = "PATCH" /\ resp.status = 200
    /\ req.body.category = "web"
    /\ global_file.kind = "doc"
    /\ "port" \in DOMAIN global_file.items["web"]
    /\ global_file.items["web"]["logging-level"] # StartValue("web", "logging-level")
    /\ global_file.items["azure"] # StartConfig["azure"]
    /\ global_file.items["sql"] = StartConfig["sql"]

\* C12: when the durable write of update_config fails, the request fails
\* and the configuration file holds what it held before the update.
C12_FailedWriteLeavesFile ==
    [][(Answers("PATCH") /\ WriteFailed(effects'))
       => /\ resp'.status = 400
          /\ global_file' = global_file]_vars

\* the calls of update_config among the events of a request
Calls(events) == {i \in DOMAIN events : events[i].ev = "call"}

Touches(events) == {i \in DOMAIN events : events[i].ev = "touch"}

\* C17: PATCH /api/config calls update_config if and only if the body is
\* not null: null is answered 400 'No data provided' with no update, write
\* or touch; any other body, the empty object too, is passed unchanged to
\* update_config once, and the response is the success when it returns
\* True and the error when it returns False.
C17_ForwardIffNotNull ==
    [][Answers("PATCH")
       => IF req'.body = JsonNull
          THEN /\ resp' = ErrorResponse("No data provided")
               /\ Calls(effects') = {}
               /\ ~WriteAttempted(effects')
               /\ Touches(effects') = {}
               /\ UNCHANGED global_vars
          ELSE /\ Cardinality(Calls(effects')) = 1
               /\ \A i \in Calls(effects') :
                     /\ effects'[i].data = req'.body
                     /\ effects'[i].returned = "True"
                           => resp' = SuccessResponse(
                                          "Configuration updated successfully")
                     /\ effects'[i].returned = "False"
                           => resp' = ErrorResponse(
                                          "Failed to update configuration")]_vars

\* C17 witness: the empty object was passed to update_config
C17_Witness ==
    /\ pc = "ready" /\ req.method = "PATCH" /\ req.body = EmptyObject
    /\ \E i \in Calls(effects) : effects[i].data = EmptyObject

\* the text in lower case, letter by letter
Folded(text) ==
    [i \in DOMAIN text |->
        IF \E k \in DOMAIN UpperSeq : UpperSeq[k] = text[i]
        THEN LowerSeq[CHOOSE k \in DOMAIN UpperSeq : UpperSeq[k] = text[i]]
        ELSE text[i]]

SendsLevel ==
    /\ PatchesSection
    /\ req'.body.category = "web"
    /\ "web_logging_level" \in DOMAIN req'.body

\* C18: an update of category 'web' stores the logging level in lower case
\* in memory and, when the update succeeds, in the durable document.
C18_LevelLowercased ==
    [][SendsLevel
       => /\ global_config'.items["web"]["logging-level"]
                 = Folded(req'.body.web_logging_level)
          /\ resp'.status = 200
                => global_file'.items["web"]["logging-level"]
                       = Folded(req'.body.web_logging_level)]_vars

\* C18 witness: 'DEBUG' was sent and 'debug' is in memory and in the file
C18_Witness ==
    /\ pc = "ready" /\ req.method = "PATCH" /\ resp.status = 200
    /\ "web_logging_level" \in DOMAIN req.body
    /\ req.body.web_logging_level = <<"D", "E", "B", "U", "G">>
    /\ global_config.items["web"]["logging-level"] = <<"d", "e", "b", "u", "g">>
    /\ global_file.items["web"]["logging-level"] = <<"d", "e", "b", "u", "g">>

\* web.logging-level of the document is one of the five levels, in any case
LevelValid(doc) ==
    /\ "web" \in DOMAIN doc
    /\ "logging-level" \in DOMAIN doc["web"]
    /\ Folded(doc["web"]["logging-level"]) \in valid_levels

\* C19: a successful update_config of a configuration whose logging level
\* is valid leaves a configuration whose logging level is valid, in memory
\* and in the durable document.
C19_LevelStaysValid ==
    [][(/\ Answers("PATCH")
        /\ resp'.status = 200
        /\ LevelValid(global_config.items)
        /\ LevelValid(global_file.items))
       => /\ LevelValid(global_config'.items)
          /\ LevelValid(global_file'.items)]_vars

\* a step that runs load_config on a document: at startup, or at the top
\* of a request
LoadsDocument ==
    /\ pc \in {"start", "ready"}
    /\ global_file.kind = "doc"
    /\ effects' # <<>> /\ effects'[1].ev = "load"

\* the load raised: startup was aborted, or the request ended in an error
LoadRaised == pc' = "aborted" \/ (pc' = "ready" /\ resp' = ServerError)

\* the required keys that a present section of the document lacks
MissingKeys(doc) ==
    {<<sec, key>> \in Recognised \X
                      UNION {section_requirements[x] : x \in Recognised} :
        /\ sec \in DOMAIN doc
        /\ key \in section_requirements[sec]
        /\ key \notin DOMAIN doc[sec]}

Mutates == Answers("POST") \/ Answers("PATCH") \/ Answers("DELETE")

\* the manager was called and the call ended this way
Returned(events, how) ==
    \E i \in Calls(events) : events[i].returned = how

\* a patch of the global configuration without its category, or without a
\* field of the section it names
LacksPatchField(data) ==
    /\ data # JsonNull
    /\ \/ "category" \notin DOMAIN data
       \/ /\ data.category \in Recognised
          /\ \E p \in DOMAIN PatchKeys[data.category] : p \notin DOMAIN data

\* an update of a plugin without plugin_name or without a replacement field
LacksPluginField(data) ==
    \/ {"plugin_name", "name", "description", "webhook"} \ DOMAIN data # {}
    \/ {"url", "secret", "allowed_ip"} \ DOMAIN data.webhook # {}

\* C13: a malformed update of the global configuration or of a plugin is
\* answered with a failure result, no exception is raised, nothing is
\* written and the document in memory is unchanged.
C13_MalformedRefused ==
    [][(/\ Answers("PATCH")
        /\ \/ InConfig /\ LacksPatchField(req'.body)
           \/ InPlugins /\ LacksPluginField(req'.body))
       => /\ resp'.status = 400
          /\ ~Returned(effects', "raised")
          /\ ~WriteAttempted(effects')
          /\ global_config' = global_config
          /\ plugin_config' = plugin_config]_vars

\* the last event is the one touch of the request, and a write that
\* succeeded comes before it
TouchedOnceAtEnd(events) ==
    /\ Cardinality(Touches(events)) = 1
    /\ events[Len(events)].ev = "touch"
    /\ WriteSucceeded(events)

\* C14 as stated: after every successful mutation the sentinel is touched
\* exactly once before the success response.
C14_Original ==
    [][(Mutates /\ resp'.status = 200)
       => /\ TouchedOnceAtEnd(effects')
          /\ effects'[Len(effects')].done]_vars

\* C14 amended: after every successful mutation the touch of the sentinel
\* is attempted exactly once, after the write and before the success
\* response; the attempt may fail, and the sentinel is then not touched.
C14_TouchAttemptedOnce ==
    [][(Mutates /\ resp'.status = 200)
       => TouchedOnceAtEnd(effects')]_vars

\* C14 witness: a plugin was deleted and the sentinel touched after the write
C14_Witness ==
    /\ pc = "ready" /\ req.method = "DELETE" /\ resp.status = 200
    /\ TouchedOnceAtEnd(effects)
    /\ effects[Len(effects)].done

\* C15: a mutation whose manager operation returns False is answered with
\* the error of status 400 and the sentinel is not touched.
C15_FailureNeverTouches ==
    [][(Mutates /\ Returned(effects', "False"))
       => /\ resp'.status = 400
          /\ resp'.result = "error"
          /\ Touches(effects') = {}]_vars

\* C15 witness: update_config of the global configuration returned False
\* for a write that failed, and the request was answered 400
C15_Witness ==
    /\ pc = "ready" /\ req.method = "PATCH" /\ resp.status = 400
    /\ InConfig
    /\ Returned(effects, "False")
    /\ WriteFailed(effects)
    /\ Touches(effects) = {}

\* the durable document of the route holds what the manager has in memory
DocumentKeepsMutation ==
    /\ InPlugins => files'[DEFAULT_PLUGIN_FILE] = Doc(plugin_config'.items)
    /\ InConfig => global_file' = Doc(global_config'.items)

\* C16: when the mutation itself succeeded the request is answered with the
\* success and the durable document keeps the mutation, whether or not the
\* touch of the sentinel succeeded.
C16_TouchFailureSwallowed ==
    [][(Mutates /\ Returned(effects', "True"))
       => /\ resp'.status = 200
          /\ resp'.result = "success"
          /\ DocumentKeepsMutation]_vars

\* C16 witness: a plugin was registered, the touch failed and the request
\* succeeded with the plugin in the document
C16_Witness ==
    /\ pc = "ready" /\ req.method = "POST" /\ resp.status = 200
    /\ \E i \in Touches(effects) : ~effects[i].done
    /\ NameTaken(files[DEFAULT_PLUGIN_FILE].items, req.body.name)

\* the event at position i comes after a write that succeeded, and no
\* write comes after it
AfterTheWrite(events, i) ==
    /\ \E j \in 1..(i - 1) :
          events[j].ev = "write" /\ events[j].outcome = "ok"
    /\ \A j \in (i + 1)..Len(events) : events[j].ev # "write"

\* C36: within one request the write of the document completes before the
\* sentinel is touched: every touch of a mutation comes after its write
\* that succeeded, and when the sentinel's time advances the document
\* already holds the mutation.
C36_WriteBeforeTouch ==
    [][Mutates
       => \A i \in Touches(effects') :
             /\ AfterTheWrite(effects', i)
             /\ DocumentKeepsMutation]_vars

\* C36 witness: a level of the global configuration was changed; the write
\* succeeded, the sentinel was touched last, and the document holds the
\* configuration of memory
C36_Witness ==
    /\ pc = "ready" /\ req.method = "PATCH" /\ resp.status = 200
    /\ InConfig
    /\ Len(effects) > 1
    /\ effects[Len(effects)].ev = "touch" /\ effects[Len(effects)].done
    /\ effects[Len(effects) - 1].ev = "write"
    /\ effects[Len(effects) - 1].outcome = "ok"
    /\ global_file = Doc(global_config.items)

(***************************************************************************)
(* Properties of loading plugin documents (LoadSpec)                       *)
(***************************************************************************)
\* a record with every required top-level field and webhook field
Complete(entry) ==
    /\ \A f \in {"name", "description", "webhook"} : f \in DOMAIN entry
    /\ \A f \in {"url", "secret", "allowed_ip"} : f \in DOMAIN entry.webhook

\* the record as the document holds it, apart from the derived route
Stored(entry) ==
    [entry EXCEPT !.webhook = Without(@, {"safe_url"})]

StoredAll(items) == [i \in DOMAIN items |-> Stored(items[i])]

\* a step in which load_config reads the plugin document
LoadsPlugins == pc \in {"start", "ready"} /\ effects' = <<LoadEvent>>

\* C21: load_config never raises on a document of records, drops every
\* record that lacks a required top-level field or webhook field, and keeps
\* every complete record, in the order of the document
C21_IncompleteDropped ==
    [][LoadsPlugins =>
          /\ pc' # "aborted"
          /\ resp' # ServerError
          /\ plugin_config'.kind = "list"
          /\ StoredAll(plugin_config'.items)
                = StoredAll(SelectSeq(files[plugin_file].items, Complete))]_vars

(***************************************************************************)
(* Properties of update and of the audit log (PluginSpec)                  *)
(***************************************************************************)
\* the body of a PATCH that names the record to update
NamesRecord(body) == "plugin_name" \in DOMAIN body

\* the body carries every field update_config assigns
CarriesFields(body) ==
    /\ {"name", "description", "webhook"} \subseteq DOMAIN body
    /\ {"url", "secret", "allowed_ip"} \subseteq DOMAIN body.webhook

\* i is the position of the first record of the name
FirstMatch(items, name, i) ==
    /\ i \in DOMAIN items
    /\ items[i].name = name
    /\ \A j \in 1..(i - 1) : items[j].name # name

\* the records at the positions other than i are the same, and so is the
\* length of the collection
OthersKept(before, after, i) ==
    /\ Len(after) = Len(before)
    /\ \A j \in DOMAIN before : j # i => after[j] = before[j]

\* the record holds the values of the body, and its other keys are kept
Overwritten(before, after, body) ==
    /\ DOMAIN after = DOMAIN before
    /\ DOMAIN after.webhook = DOMAIN before.webhook
    /\ after.name = body.name
    /\ after.description = body.description
    /\ after.webhook.url = body.webhook.url
    /\ after.webhook.secret = body.webhook.secret
    /\ after.webhook.allowed_ip = body.webhook.allowed_ip
    /\ \A f \in DOMAIN before.webhook \ {"url", "secret", "allowed_ip"} :
          after.webhook[f] = before.webhook[f]

\* the update of the request found no record, and nothing happened
NoMatchRefused ==
    /\ resp'.status = 400
    /\ Returned(effects', "False")
    /\ ~WriteAttempted(effects')
    /\ ~Audited(effects')
    /\ plugin_config' = plugin_config
    /\ files' = files

\* C22 as stated: an update that matches no record fails without a write
\* or an audit entry; an update that matches a record overwrites it in
\* place, persists the full list and audit-logs.
C22_Original ==
    [][(Answers("PATCH") /\ NamesRecord(req'.body)
          /\ CarriesFields(req'.body))
       => IF ~NameTaken(plugin_config.items, req'.body.plugin_name)
          THEN NoMatchRefused
          ELSE \E i \in DOMAIN plugin_config.items :
                  /\ FirstMatch(plugin_config.items, req'.body.plugin_name, i)
                  /\ OthersKept(plugin_config.items, plugin_config'.items, i)
                  /\ Overwritten(plugin_config.items[i],
                                 plugin_config'.items[i], req'.body)
                  /\ files'[DEFAULT_PLUGIN_FILE] = Doc(plugin_config'.items)
                  /\ Audited(effects')]_vars

\* C22 amended: an update that matches no record fails without a write or
\* an audit entry and changes nothing.  An update that matches a record
\* changes no other record and not the length of the collection; when it
\* returns success the first matching record holds the values of the body
\* at the same position, the document holds the full list and the audit
\* entry is written; it returns success when the body carries every field,
\* every allowed-ip entry is an address and the durable write does not fail.
C22_UpdateInPlace ==
    [][(Answers("PATCH") /\ NamesRecord(req'.body))
       => IF ~NameTaken(plugin_config.items, req'.body.plugin_name)
          THEN NoMatchRefused
          ELSE \E i \in DOMAIN plugin_config.items :
                  /\ FirstMatch(plugin_config.items, req'.body.plugin_name, i)
                  /\ OthersKept(plugin_config.items, plugin_config'.items, i)
                  /\ Returned(effects', "True")
                        => /\ CarriesFields(req'.body)
                           /\ Overwritten(plugin_config.items[i],
                                          plugin_config'.items[i], req'.body)
                           /\ files'[DEFAULT_PLUGIN_FILE]
                                  = Doc(plugin_config'.items)
                           /\ Audited(effects')
                  /\ (/\ CarriesFields(req'.body)
                      /\ AllAddresses(req'.body.webhook.allowed_ip)
                      /\ ~WriteFailed(effects'))
                        => /\ Returned(effects', "True")
                           /\ resp'.status = 200]_vars

\* C22 witness: an update renamed the second of two records and succeeded
C22_Witness ==
    /\ pc = "ready" /\ req.method = "PATCH" /\ resp.status = 200
    /\ Len(plugin_config.items) = 2
    /\ req.body.plugin_name # req.body.name
    /\ plugin_config.items[2].name = req.body.name
    /\ plugin_config.items[1].name # req.body.plugin_name
    /\ files[DEFAULT_PLUGIN_FILE] = Doc(plugin_config.items)

\* the positions of the audit lines among the events
Audits(events) == {i \in DOMAIN events : events[i].ev = "audit"}

\* the verb of the audit line of each method
VerbOf(method) ==
    CASE method = "POST" -> "registered"
      [] method = "PATCH" -> "updated"
      [] method = "DELETE" -> "deleted"

\* exactly one audit line, of the verb and the plugin name of the request,
\* after a write that succeeded and no write that failed
AuditedOnceAfterWrite(events, method, name) ==
    /\ Cardinality(Audits(events)) = 1
    /\ \A i \in Audits(events) :
          /\ events[i] = AuditEvent(VerbOf(method), name)
          /\ \E j \in 1..(i - 1) :
                events[j].ev = "write" /\ events[j].outcome = "ok"
    /\ ~WriteFailed(events)

\* C23: a register, update or delete that returns success has persisted
\* the collection and written exactly one audit line, naming the plugin,
\* after the durable write succeeded; one that fails or raises (duplicate
\* name, invalid allowed-ip, no matching record, write failure) writes no
\* audit line.
C23_AuditAfterWrite ==
    [][Mutates
       => IF Returned(effects', "True")
          THEN /\ files'[DEFAULT_PLUGIN_FILE] = Doc(plugin_config'.items)
               /\ AuditedOnceAfterWrite(effects', req'.method, req'.body.name)
          ELSE ~Audited(effects')]_vars

\* C23 witness: a register succeeded, the document holds the collection
\* and the one audit line names the registered plugin
C23_Witness ==
    /\ pc = "ready" /\ req.method = "POST" /\ resp.status = 200
    /\ files[DEFAULT_PLUGIN_FILE] = Doc(plugin_config.items)
    /\ Cardinality(Audits(effects)) = 1
    /\ \A i \in Audits(effects) :
          effects[i] = AuditEvent("registered", req.body.name)

(***************************************************************************)
(* Properties of the API next to other writers (ReloadSpec)                *)
(***************************************************************************)
\* what a request reads from the plugin document as it is now
FreshPlugins == load_config(files[plugin_file]).config

\* what a request reads from the global configuration document as it is now
FreshConfig == global_load_config(global_file).config

\* the answer of GET by name on the collection
NamedIn(items, name, answer) ==
    IF NameTaken(items, name)
    THEN /\ answer.status = 200
         /\ \E i \in DOMAIN items : FirstMatch(items, name, i)
                                       /\ answer.plugin = items[i]
    ELSE answer.status = 404

\* C30: every request of /api/plugins and /api/config that reaches its
\* method was served from the durable document as it is at that request:
\* the manager holds what load_config reads from the current document when
\* the method runs, and a GET answers with it; a request whose load raises
\* ends in a server error that carries no data.
C30_RereadEveryRequest ==
    [][/\ (pc = "loaded" /\ pc' = "ready")
          => /\ InPlugins => plugin_config = FreshPlugins
             /\ InConfig => global_config = FreshConfig
             /\ (InPlugins /\ req'.method = "GET")
                   => IF "plugins" \in DOMAIN resp'
                      THEN resp'.plugins = FreshPlugins.items
                      ELSE NamedIn(FreshPlugins.items, req'.body.name, resp')
             /\ (InConfig /\ req'.method = "GET")
                   => resp'.config = FreshConfig.items
       /\ (pc = "ready" /\ pc' = "ready" /\ effects' # effects)
          => resp' = ServerError]_vars

\* C30 witness: a GET of all plugins answered with a record that only
\* another process can have written to the document
C30_Witness ==
    /\ pc = "ready" /\ req.method = "GET" /\ resp.status = 200
    /\ "plugins" \in DOMAIN resp
    /\ Len(resp.plugins) = 1
    /\ resp.plugins[1].name = NameB
    /\ resp.plugins[1].webhook.url = EntryBStored.webhook.url

(***************************************************************************)
(* Properties of the connection negotiation (DockerSpec)                   *)
(***************************************************************************)
LocalMethods == {"Unix socket", "Windows named pipe"}

\* the text is the word, in any mix of upper and lower case
IsWord(text, lower, upper) ==
    /\ Len(text) = Len(lower)
    /\ \A i \in DOMAIN text : text[i] = lower[i] \/ text[i] = upper[i]

TcpOverride ==
    /\ docker_env.method.set
    /\ IsWord(docker_env.method.value, <<"t", "c", "p">>, <<"T", "C", "P">>)

SocketOverride ==
    /\ docker_env.method.set
    /\ IsWord(docker_env.method.value, <<"s", "o", "c", "k", "e", "t">>,
              <<"S", "O", "C", "K", "E", "T">>)

TcpForced ==
    TcpOverride \/ (~SocketOverride /\ docker_args.force_tcp)

\* the method names of the candidates in the documented order
DocumentedOrder ==
    (IF TcpForced THEN <<>>
     ELSE IF docker_env.platform = "Windows" THEN <<"Windows named pipe">>
     ELSE IF docker_env.socket_exists THEN <<"Unix socket">>
     ELSE <<>>)
    \o <<"TCP (" \o docker_args.server \o ":"
            \o ToString(docker_args.port) \o ")",
         "TCP (localhost:2375)", "TCP (127.0.0.1:2375)">>

Failed(i) == attempted[i].outcome # "ok"

\* C24: the candidates are the documented ones in the documented order;
\* they are attempted in that order, each attempt after the failure of all
\* earlier ones; nothing is attempted after a success, and
\* connection_method is the method name of the candidate that succeeded.
C24_InOrderUntilFirstSuccess ==
    /\ connection_attempts # <<>>
          => [i \in DOMAIN connection_attempts |-> connection_attempts[i].method]
                = DocumentedOrder
    /\ Len(attempted) <= Len(connection_attempts)
    /\ \A i \in DOMAIN attempted :
          /\ attempted[i].method = connection_attempts[i].method
          /\ attempted[i].url = connection_attempts[i].url
          /\ \A j \in 1..(i - 1) : Failed(j)
    /\ IF attempted # <<>> /\ ~Failed(Len(attempted))
       THEN connection_method = attempted[Len(attempted)].method
       ELSE connection_method = NoMethod
    /\ docker_pc = "connected" => connection_method # NoMethod

\* C24 witness: the socket and the configured host failed and localhost
\* answered
C24_Witness ==
    /\ docker_pc = "connected"
    /\ Len(attempted) = 3
    /\ attempted[1].method = "Unix socket"
    /\ attempted[2].method = "TCP (host.docker.internal:2375)"
    /\ connection_method = "TCP (localhost:2375)"

\* C25: with the override tcp in the environment no socket or pipe
\* candidate is in the list or attempted, on every platform, with and
\* without the socket, and for both values of force_tcp.
C25_TcpOverrideSkipsSocket ==
    TcpOverride
       => /\ \A i \in DOMAIN connection_attempts :
                connection_attempts[i].method \notin LocalMethods
          /\ \A i \in DOMAIN attempted :
                /\ attempted[i].method \notin LocalMethods
                /\ attempted[i].url \notin {"unix://" \o DOCKER_SOCKET_UNIX,
                                            DOCKER_SOCKET_WINDOWS}
          /\ connection_method \notin LocalMethods

\* C25 witness: the override is tcp, the socket exists, force_tcp is not
\* given, and the negotiator connected
C25_Witness ==
    /\ TcpOverride
    /\ docker_env.platform = "Linux" /\ docker_env.socket_exists
    /\ ~docker_args.force_tcp
    /\ docker_pc = "connected"
    /\ connection_method = "TCP (host.docker.internal:2375)"

\* C26: with the override socket in the environment the negotiator connects
\* through the socket or the pipe: the active transport is never a TCP
\* candidate.
C26_SocketOverrideForcesSocket ==
    SocketOverride => connection_method \in LocalMethods \cup {NoMethod}

\* the response of a request that ended in the ConnectionError of __init__
ConnectionErrorRaised ==
    /\ resp.status = 500
    /\ "error" \in DOMAIN resp
    /\ resp.error.type = "ConnectionError"

\* a step in which a candidate is attempted and fails
AttemptFails ==
    /\ docker_pc = "negotiating"
    /\ Len(attempted') = Len(attempted) + 1
    /\ attempted'[Len(attempted')].outcome # "ok"

\* C27: the negotiation ends; ConnectionError is raised only when every
\* candidate of the list was attempted once, in order, and failed, and its
\* cause is the error of the last candidate; a failed attempt, whatever was
\* raised, leaves the negotiation running and raises nothing.
C27_FailsOnlyWhenExhausted ==
    /\ [](ConnectionErrorRaised
            => /\ Len(attempted) = Len(connection_attempts)
               /\ attempted # <<>>
               /\ \A i \in DOMAIN attempted :
                     /\ Failed(i)
                     /\ attempted[i].url = connection_attempts[i].url
               /\ resp.error.cause =
                     [type |-> attempted[Len(attempted)].outcome,
                      url |-> attempted[Len(attempted)].url])
    /\ [][AttemptFails => (docker_pc' = "negotiating" /\ resp' = resp)]_vars
    /\ [][(docker_pc = "negotiating" /\ docker_pc' = "idle")
             => (ConnectionErrorRaised')]_vars
    /\ (docker_pc = "negotiating") ~> (docker_pc # "negotiating")

\* C27 witness: four candidates failed, with both kinds of exception, and
\* the request ended in ConnectionError
C27_Witness ==
    /\ ConnectionErrorRaised
    /\ Len(attempted) = 4
    /\ attempted[1].outcome = "TimeoutError"
    /\ attempted[4].outcome = "DockerException"

(***************************************************************************)
(* Properties of the status queries (StatusSpec)                           *)
(***************************************************************************)
\* the image of the container has the label, and its value is the name
HasLabel(container, label, name) ==
    label \in DOMAIN container.labels /\ container.labels[label] = name

\* the container matches the query: its service-name label or its
\* plugin-name label equals the name
LabelledAs(container, name) ==
    HasLabel(container, ServiceLabel, name)
    \/ HasLabel(container, PluginLabel, name)

\* the services the request asked for, in the order of the answers
Queried == ServicesOf(req.body.container)

\* the label of the image, or the fallback when the image has no such label
LabelOr(container, label, fallback) ==
    IF label \in DOMAIN container.labels THEN container.labels[label]
    ELSE fallback

\* the record of a container for a query
RecordOf(container, name) ==
    [name |-> container.name,
     status |-> container.status,
     health |-> container.health,
     service_name |-> name,
     title |-> LabelOr(container, TitleLabel, "Unknown Title"),
     description |-> LabelOr(container, DescriptionLabel,
                             "No description available"),
     version |-> LabelOr(container, VersionLabel, "Unknown Version")]

\* C28: the answer for a name that matches no running container, the case
\* of no running container included, is the placeholder: status 'container
\* not found', health 'unknown', name and service_name the queried name.
C28_PlaceholderWhenNoMatch ==
    \A k \in DOMAIN container_list :
        (\A i \in DOMAIN containers : ~LabelledAs(containers[i], Queried[k]))
           => /\ container_list[k].status = "container not found"
              /\ container_list[k].health = "unknown"
              /\ container_list[k].name = Queried[k]
              /\ container_list[k].service_name = Queried[k]

\* C29 as stated: the answer for a name equal to the service-name label or
\* the plugin-name label of a running container is the record of that
\* container.
C29_Original ==
    \A k \in DOMAIN container_list :
        \A i \in DOMAIN containers :
            LabelledAs(containers[i], Queried[k])
               => container_list[k] = RecordOf(containers[i], Queried[k])

\* the container is taken for a match: a label equals the name, or the
\* label is absent and the name is the text that stands for an absent label
TakenAs(container, name) ==
    \/ LabelledAs(container, name)
    \/ ServiceLabel \notin DOMAIN container.labels /\ name = "Unknown Service"
    \/ PluginLabel \notin DOMAIN container.labels /\ name = "Unknown Plugin"

\* C29 amended: the answer for a name equal to the service-name label or
\* the plugin-name label of a running container is the record of the last
\* container of the runtime's list that is taken for a match: its name,
\* status and health, the queried name as service_name, and title,
\* description and version from the labels of its image or their fallbacks.
C29_LastMatchReported ==
    \A k \in DOMAIN container_list :
        (\E i \in DOMAIN containers : LabelledAs(containers[i], Queried[k]))
           => \E i \in DOMAIN containers :
                 /\ TakenAs(containers[i], Queried[k])
                 /\ \A j \in (i + 1)..Len(containers) :
                       ~TakenAs(containers[j], Queried[k])
                 /\ container_list[k] = RecordOf(containers[i], Queried[k])

\* C29 witness: the query teams was answered from the plugin-name label,
\* with the fallbacks for title and description and the version of the
\* image
C29_Witness ==
    /\ docker_pc = "idle" /\ resp.status = 200
    /\ Queried = <<"teams">>
    /\ container_list # <<>>
    /\ container_list[1].name = "teams-plugin"
    /\ container_list[1].title = "Unknown Title"
    /\ container_list[1].description = "No description available"
    /\ container_list[1].version = "2.1"
    /\ container_list[1].health = "unhealthy"

\* the positions of the runtime's list whose container matches the name
MatchingAt(name) ==
    {i \in DOMAIN containers : LabelledAs(containers[i], name)}

\* the positions of the runtime's list whose container the scan takes for
\* a match of the name
TakenAt(name) ==
    {i \in DOMAIN containers : TakenAs(containers[i], name)}

\* the greatest position of a non-empty set of positions
LastOf(positions) ==
    CHOOSE i \in positions : \A j \in positions : j <= i

\* C34: when several running containers match the queried name, the
\* answer is the record of the last of them in the order of the listing.
C34_LastOfSeveral ==
    \A k \in DOMAIN container_list :
        /\ Cardinality(MatchingAt(Queried[k])) > 1
              => container_list[k] =
                    RecordOf(containers[LastOf(MatchingAt(Queried[k]))],
                             Queried[k])
        /\ Cardinality(TakenAt(Queried[k])) > 1
              => container_list[k] =
                    RecordOf(containers[LastOf(TakenAt(Queried[k]))],
                             Queried[k])

\* C34 witness: core-2 is listed before core-1, both are labelled core, and
\* the query core was answered with the record of core-1
C34_Witness ==
    /\ docker_pc = "idle" /\ resp.status = 200
    /\ Queried = <<"core">>
    /\ MatchingAt("core") = {1, 2}
    /\ containers[1].name = "core-2"
    /\ containers[2].name = "core-1"
    /\ container_list # <<>>
    /\ container_list[1].name = "core-1"
    /\ container_list[1].status = containers[2].status

\* the image of the container has neither the service-name label nor the
\* plugin-name label
CarriesNeitherLabel(container) ==
    /\ ServiceLabel \notin DOMAIN container.labels
    /\ PluginLabel \notin DOMAIN container.labels

\* C37: the record of a running container is the answer to a query only
\* if its service-name label or its plugin-name label equals the queried
\* name; a container with neither label is the answer to no query.
C37_OnlyLabelledContainersMatch ==
    \A k \in DOMAIN container_list :
        \A i \in DOMAIN containers :
            container_list[k] = RecordOf(containers[i], Queried[k])
               => /\ LabelledAs(containers[i], Queried[k])
                  /\ ~CarriesNeitherLabel(containers[i])

(***************************************************************************)
(* Properties of a refused update (PluginSpec)                             *)
(***************************************************************************)
\* an update of an existing record, complete but for an allowed-ip entry
\* that is no address
UpdateFailsValidation ==
    /\ Answers("PATCH")
    /\ NamesRecord(req'.body) /\ CarriesFields(req'.body)
    /\ NameTaken(plugin_config.items, req'.body.plugin_name)
    /\ HasBadEntry(req'.body.webhook.allowed_ip)

\* C33: an update whose allowed-ip list fails validation returns failure
\* and writes nothing, while the matched record in memory holds the new
\* name, description, url, secret and allowed-ip; the load_config of the
\* next request makes memory the view of the document again.
C33_RefusedUpdateDiverges ==
    [][/\ UpdateFailsValidation
          => /\ resp'.status = 400
             /\ Returned(effects', "False")
             /\ ~WriteAttempted(effects')
             /\ files' = files
             /\ \E i \in DOMAIN plugin_config.items :
                   /\ FirstMatch(plugin_config.items, req'.body.plugin_name, i)
                   /\ OthersKept(plugin_config.items, plugin_config'.items, i)
                   /\ Overwritten(plugin_config.items[i],
                                  plugin_config'.items[i], req'.body)
       /\ (pc = "ready" /\ pc' = "loaded")
          => /\ files' = files
             /\ plugin_config' = FreshPlugins]_vars

\* C33 witness: an update that renames a record was refused for its
\* allowed-ip list; memory holds the new name and the document the old one
C33_Witness ==
    /\ pc = "ready" /\ req.method = "PATCH" /\ resp.status = 400
    /\ HasBadEntry(req.body.webhook.allowed_ip)
    /\ req.body.name # req.body.plugin_name
    /\ NameTaken(plugin_config.items, req.body.name)
    /\ ~NameTaken(plugin_config.items, req.body.plugin_name)
    /\ NameTaken(files[plugin_file].items, req.body.plugin_name)
    /\ ~NameTaken(files[plugin_file].items, req.body.name)

(***************************************************************************)
(* Properties of a PluginConfig with its own file name (CustomFileSpec)    *)
(***************************************************************************)
\* C35: a register, update or delete that succeeded has written the file
\* that load_config reads, whatever its name: that file holds the
\* collection of memory, and the next load_config from it observes the
\* mutation.
C35_MutationWritesLoadedFile ==
    [][(Mutates /\ Returned(effects', "True"))
       => /\ files'[plugin_file'] = Doc(plugin_config'.items)
          /\ load_config(files'[plugin_file']).config
                = load_config(Doc(plugin_config'.items)).config]_vars

(***************************************************************************)
(* Properties of GET by name (HeaderSpec)                                  *)
(***************************************************************************)
\* C38: GET with the name of a plugin of the collection answers exactly the
\* record of that name, whatever name was registered; GET with a name that
\* no plugin has (the word for the whole list aside) answers not-found.
C38_GetAnswersOwnRecord ==
    [][(Answers("GET") /\ req'.body.name # NoHeader)
       => IF NameTaken(plugin_config.items, req'.body.name)
          THEN /\ resp'.status = 200
               /\ "plugin" \in DOMAIN resp'
               /\ resp'.plugin.name = req'.body.name
               /\ \E i \in DOMAIN plugin_config.items :
                     resp'.plugin = plugin_config.items[i]
          ELSE req'.body.name # AllName => resp'.status = 404]_vars

(***************************************************************************)
(* Properties of a load_config that raises (ReloadSpec)                    *)
(***************************************************************************)
\* the load_config at the start of a request raised
RequestLoadRaised ==
    /\ pc = "ready" /\ pc' = "ready"
    /\ effects' # <<>> /\ effects'[Len(effects')].ev = "load"
    /\ resp' = ServerError

\* C39: a load_config that raises leaves the document the manager holds
\* in memory as it was before the call.
C39_FailedLoadKeepsMemory ==
    [][RequestLoadRaised
       => /\ global_config' = global_config
          /\ plugin_config' = plugin_config]_vars

(***************************************************************************)
(* Properties of the client of one status query (DockerSpec)               *)
(***************************************************************************)
\* the client objects of the DockerApi at hand
Handles == client_handles.current

\* C32: the client that was negotiated for a status query is open while
\* that query runs and no longer: it was made for the service being looked
\* up, it is closed when the query is over, whether container_status
\* returned or raised, no negotiated client of an earlier query is left
\* open, and a client is used for no other service than its own.
C32_HandleScopedToOneQuery ==
    /\ client_handles.unclosed = {}
    /\ docker_pc # "connected" => StillOpen(Handles) = {}
    /\ docker_pc = "connected"
          => /\ Handles # <<>>
             /\ StillOpen(Handles) = {Handles[Len(Handles)]}
             /\ Handles[Len(Handles)].service = Head(services)
             /\ Handles[Len(Handles)].queried = <<>>
    /\ \A i \in DOMAIN Handles :
          /\ Handles[i].queried \in {<<>>, <<Handles[i].service>>}
          /\ Handles[i].queried # <<>> => Handles[i].negotiated

\* C32 witness: the third candidate was negotiated, the listing of the
\* containers raised, the request was answered 500 and the client is closed
C32_Witness ==
    /\ docker_pc = "idle" /\ resp.status = 500
    /\ resp.error.type = "APIError"
    /\ Len(attempted) = 3
    /\ Handles # <<>>
    /\ Handles[Len(Handles)].negotiated
    /\ ~Handles[Len(Handles)].open
    /\ Handles[Len(Handles)].queried = <<Head(services)>>

(***************************************************************************)
(* Properties of two requests at the same time (ConcurrentSpec)            *)
(***************************************************************************)
\* the document is the collection the worker had loaded, with one more
\* entry of the given name at its end
LoadedPlusOne(document, loaded, name) ==
    /\ Len(document.items) = Len(loaded) + 1
    /\ SubSeq(document.items, 1, Len(loaded)) = loaded
    /\ document.items[Len(document.items)].name = name

\* the second worker answers a POST in this step
PeerAnswersPost ==
    peer.pc = "loaded" /\ peer'.pc = "ready" /\ peer'.req.method = "POST"

\* C31: a request goes from load to mutation to write without mutual
\* exclusion: the write of a registration that succeeds replaces the
\* document by the collection that worker loaded at the top of its own
\* request plus its plugin, whatever another request wrote in between.
C31_WriteReplacesDocument ==
    [][/\ (PeerAnswersPost /\ peer'.resp.status = 200)
          => LoadedPlusOne(files'[DEFAULT_PLUGIN_FILE], peer.config.items,
                           peer'.req.body.name)
       /\ (Answers("POST") /\ resp'.status = 200)
          => LoadedPlusOne(files'[DEFAULT_PLUGIN_FILE], plugin_config.items,
                           req'.body.name)]_vars

\* C31 witness: both workers answered 200 to the registration of a plugin
\* of their own, nothing was deleted, and the document lacks one of the two
\* plugins
C31_Witness ==
    /\ pc = "ready" /\ peer.pc = "ready"
    /\ req.method = "POST" /\ resp.status = 200
    /\ peer.req.method = "POST" /\ peer.resp.status = 200
    /\ req.body.name # peer.req.body.name
    /\ \/ ~NameTaken(files[DEFAULT_PLUGIN_FILE].items, req.body.name)
       \/ ~NameTaken(files[DEFAULT_PLUGIN_FILE].items, peer.req.body.name)

====
